---- MODULE Spec2Model ----
(***************************************************************************)
(* A model of quache-go: the sharded in-memory key-value store of          *)
(* core/core.go (Shard, KVStore, the snapshot files) with the callers that *)
(* run against it concurrently: request handlers calling Put/Get/Delete,   *)
(* the cleanup worker calling Cleanup and the flush worker calling ToDisk. *)
(*                                                                         *)
(* Every method is split at its lock operations: a thread's position (pc)  *)
(* moves from the call, to holding the shard's RWMutex, to the return.     *)
(* time.Now().UnixMilli() is the variable clock, advanced by Tick.         *)
(***************************************************************************)
EXTENDS Integers, Sequences, FiniteSets, TLC

\* ------------------------------------------------------------------ bounds
\* Calls (Put, Get, Delete, Cleanup, ToDisk) of one run of concurrent threads.
MaxCalls == 3
\* Calls of one run of SpecTtl, and of one run of SpecDisk.
MaxTtlCalls == 3
MaxDiskCalls == 3
\* Calls of one run of SpecRace.
MaxRaceCalls == 3
\* Calls of one run of SpecReload.
MaxReloadCalls == 3
\* Calls of one run of SpecShutdown, and the SIGINTs delivered in it.
MaxShutdownCalls == 3
MaxSigints == 1
\* Calls of one run of SpecLocks.
MaxLockCalls == 3
\* Calls of one run of SpecFlushWorker.
MaxFlushWorkerCalls == 3
\* Calls of one run of SpecOverwrite.
MaxOverwriteCalls == 3
\* Calls of one run of SpecLossy.
MaxLossyCalls == 5
\* Calls of one run of SpecEmpty.
MaxEmptyCalls == 4
\* Calls of one run of SpecFlushRace.
MaxFlushRaceCalls == 3
\* Requests of one run of SpecHttp.
MaxRequests == 3
\* Calls of the request handler in one run of SpecEvict.
MaxEvictCalls == 2
\* Calls of the request handler in one run of SpecPersist.
MaxPersistCalls == 3
\* The clock stops advancing at MaxTime milliseconds.
MaxTime == 2000
\* One Tick advances the clock by TickMs milliseconds.
TickMs == 1000

\* ------------------------------------------------------- parameters, inputs
\* numShards of NewKVStore / NewKVStoreFromDisk.
NumShards == 2
\* Another numShards that the process may be started with on the same directory.
OtherNumShards == 3

\* "hello" and "bye" share a shard when NumShards = 2; "k" is in the other one.
Keys == {"hello", "bye", "k"}

\* crc32.ChecksumIEEE of the keys used (hash/crc32, IEEE polynomial).
ChecksumIEEE(key) ==
    CASE key = "hello" -> 907060870
      [] key = "bye"   -> 2000130356
      [] key = "k"     -> 140662621
      [] key = "   "   -> 1776720792
      [] key = ""      -> 0

\* Go values of type any: the dynamic type is part of the value.
IntVal(n) == [n |-> n, type |-> "int"]
Float64Val(n) == [n |-> n, type |-> "float64"]
StringVal(str) == [type |-> "string", str |-> str]
NilVal == [type |-> "nil"]
Values == {IntVal(1), Float64Val(2)}

\* ttl *float64: Nil, or a pointer to a number of seconds.
Nil == <<>>
TtlArgs == {Nil, <<0>>, <<1>>}

Clients == {"c1", "c2"}
Cleaner == "cleaner"
Flusher == "flusher"
Threads == Clients \cup {Cleaner, Flusher}

VARIABLES
    clock,            \* time.Now().UnixMilli()
    shards,           \* kv.Shards[i].Data: shard index -> (key -> ShardEntry)
    mu,               \* kv.Shards[i].mu: holders of the writer and reader lock
    shardDimensions,  \* kv.shardDimensions
    files,            \* the snapshot directory: shard index -> file or NoFile
    pc,               \* each thread's position
    local,            \* each thread's parameters and local variables
    ret,              \* the most recent return: thread, call, result
    budget,           \* number of calls the run may still start
    lastPut,          \* history: key -> the Put or Delete that last took effect
                      \*   (n: 1 for the first Put of the key since its last
                      \*   Delete, 2 for a Put that overwrote a Put)
    window,           \* history: per Get in flight, the entries its key has had
    phase,            \* history: how the store came to its contents (see Phase)
    foundEmpty,       \* history: the shards that the last Flush of them found
                      \*   empty after its ToDisk had recorded a length above 0
    proc              \* the process: signal channel, context, main routine,
                      \*   HTTP listener, the two workers and their tickers

vars == <<clock, shards, mu, shardDimensions, files, pc, local, ret, budget,
          lastPut, window, phase, foundEmpty, proc>>

\* ------------------------------------------------------------- core.go data
NewShardEntry(value, ttl, now) ==
    [Value |-> value, Timestamp |-> now, Ttl |-> ttl]

NoError == [type |-> "nil"]
NewKeyNotFoundError(key) == [type |-> "KeyNotFound", key |-> key]
NewExpiredEntryError(key, ttl, elapsed) ==
    [type |-> "ExpiredEntry", key |-> key, ttl |-> ttl, elapsed |-> elapsed]
NewUnloadableShardError(shardNum) ==
    [type |-> "UnloadableShard", shardNum |-> shardNum]

NewShardData == [k \in {} |-> 0]
NewMutex == [w |-> {}, r |-> {}]

ShardIndexes(n) == 0 .. (n - 1)

\* NewKVStore: numShards empty shards, shardDimensions[i] = 0.
NewKVStore(numShards) ==
    [Shards |-> [i \in ShardIndexes(numShards) |-> NewShardData],
     shardDimensions |-> [i \in ShardIndexes(numShards) |-> 0]]

\* A findShard that sends every key to shard 0.
findShardFirst(S, key) == 0

\* A findShard that is off by one shard.
findShardNext(S, key) == (ChecksumIEEE(key) + 1) % Cardinality(DOMAIN S)

\* findShard: int(crc32(key)) % len(kv.Shards).
findShard(S, key) == ChecksumIEEE(key) % Cardinality(DOMAIN S)

\* A conversion of ttl that keeps the seconds.
ActualTtlSeconds(ttl) == IF ttl = Nil THEN -1 ELSE ttl[1]

\* Put's conversion of ttl: nil -> -1, else seconds * 1000.
ActualTtl(ttl) == IF ttl = Nil THEN -1 ELSE ttl[1] * 1000

\* An expiry test that does not exempt ttl <= 0.
IsExpiredNoSentinel(e, currentTime) == currentTime - e.Timestamp > e.Ttl

\* The expiry test shared by Get and Evict.
IsExpired(e, currentTime) ==
    e.Ttl > 0 /\ currentTime - e.Timestamp > e.Ttl

\* A Put that keeps the entry a key already has.
PutDataKeepFirst(d, key, e) ==
    [k \in DOMAIN d \cup {key} |-> IF k \in DOMAIN d THEN d[k] ELSE e]

\* A Put that keeps the timestamp of the entry it overwrites.
PutDataKeepTimestamp(d, key, e) ==
    [k \in DOMAIN d \cup {key} |->
        IF k = key
        THEN IF key \in DOMAIN d THEN [e EXCEPT !.Timestamp = d[key].Timestamp] ELSE e
        ELSE d[k]]

\* Data[key] = entry
PutData(d, key, e) ==
    [k \in DOMAIN d \cup {key} |-> IF k = key THEN e ELSE d[k]]

\* A delete that removes nothing.
DeleteDataNothing(d, key) == d

\* delete(Data, key)
DeleteData(d, key) == [k \in DOMAIN d \ {key} |-> d[k]]

\* An Evict that deletes nothing, and one that deletes every entry with a
\* TTL whatever its age.
EvictDataNone(d, currentTime) == d
EvictDataAllTimed(d, currentTime) ==
    [k \in {x \in DOMAIN d : d[x].Ttl <= 0} |-> d[k]]

\* The loop of Evict: delete every expired entry.
EvictData(d, currentTime) ==
    [k \in {x \in DOMAIN d : ~IsExpired(d[x], currentTime)} |-> d[k]]

\* What Get returns from the shard's map, read under the reader lock.
GetResult(d, key, currentTime) ==
    IF key \in DOMAIN d
    THEN IF IsExpired(d[key], currentTime)
         THEN [val |-> NilVal,
               err |-> NewExpiredEntryError(key, d[key].Ttl,
                                            currentTime - d[key].Timestamp)]
         ELSE [val |-> d[key].Value, err |-> NoError]
    ELSE [val |-> NilVal, err |-> NewKeyNotFoundError(key)]

\* ------------------------------------------------- snapshot files (codec)
\* A file is a sequence of lines (its text split at "\n"). The body that Flush
\* writes is one line of JSON; the digest line is the hex text of its MD5.
NoFile == [exists |-> FALSE, lines |-> << >>]
File(lines) == [exists |-> TRUE, lines |-> lines]

\* encoding/json of a value of type any: int and float64 are both JSON numbers.
JsonMarshalValue(v) ==
    CASE v.type \in {"int", "float64"} -> [number |-> v.n]
      [] v.type = "string" -> [string |-> v.str]
      [] OTHER -> [null |-> TRUE]
\* Decoding into an any: a JSON number gives a float64, a JSON string a
\* string, null gives nil.
JsonUnmarshalValue(j) ==
    CASE "number" \in DOMAIN j -> Float64Val(j.number)
      [] "string" \in DOMAIN j -> StringVal(j.string)
      [] OTHER -> NilVal

\* json.Marshal(s.Data): {key: {"value", "timestamp", "ttl"}}, one line.
JsonMarshal(d) ==
    [kind |-> "json", flip |-> "none",
     obj |-> [k \in DOMAIN d |->
                [value |-> JsonMarshalValue(d[k].Value),
                 timestamp |-> d[k].Timestamp,
                 ttl |-> d[k].Ttl]]]

\* json.Unmarshal(mapData, &data): fails unless mapData is one well-formed
\* JSON line (a line with a byte changed to no JSON, or cut short, is none).
JsonUnmarshal(mapData) ==
    IF Len(mapData) = 1 /\ mapData[1].kind = "json"
       /\ mapData[1].flip \notin {"syntax", "cut"}
    THEN [ok |-> TRUE,
          data |-> [k \in DOMAIN mapData[1].obj |->
                      [Value |-> JsonUnmarshalValue(mapData[1].obj[k].value),
                       Timestamp |-> mapData[1].obj[k].timestamp,
                       Ttl |-> mapData[1].obj[k].ttl]]]
    ELSE [ok |-> FALSE, data |-> NewShardData]

\* md5.Sum of a text: taken to be free of collisions, so the digest stands for
\* the text itself.
Md5Sum(text) == [of |-> text, n |-> 16]

\* hex.EncodeToString: two hex digits per byte.
HexEncodeToString(hash) == [kind |-> "hex", of |-> hash.of, n |-> 2 * hash.n]

\* hex.DecodeString: fails on an odd number of digits and on a line that is
\* not hex digits (a JSON body); the empty line decodes to no bytes.
HexDecodeString(line) ==
    IF line.kind # "hex" \/ line.n % 2 = 1
    THEN [ok |-> FALSE, bytes |-> [of |-> << >>, n |-> 0]]
    ELSE [ok |-> TRUE,
          bytes |-> [of |-> IF line.n = 0 THEN << >> ELSE line.of, n |-> line.n \div 2]]

\* strings.Split(text, "\n") of a file's text: never empty (the empty text
\* splits into one empty line).
SplitLines(file) ==
    IF file.lines = << >> THEN <<[kind |-> "hex", of |-> << >>, n |-> 0]>>
    ELSE file.lines

\* What Flush writes for a non-empty map: data, "\n", hex(md5(data)).
FlushContent(d) ==
    LET data == <<JsonMarshal(d)>>
        hash == Md5Sum(data)
        encoded == HexEncodeToString(hash)
    IN File(data \o <<encoded>>)

\* What a failing os.WriteFile can leave of the file, old being the file
\* before: os.WriteFile opens with O_WRONLY|O_CREATE|O_TRUNC, writes and
\* closes.  Open fails: the file is as it was.  Write fails: the file exists
\* and holds no byte, or the body cut short, or the body and a prefix of the
\* digest line.  Close fails: the file holds all that Flush wrote.
WriteFileFailed(old, d) ==
    LET whole == FlushContent(d)
    IN {old,
        File(<< >>),
        File(<<[whole.lines[1] EXCEPT !.flip = "cut"]>>),
        File(<<whole.lines[1], [whole.lines[2] EXCEPT !.n = 2]>>),
        whole}

\* A load that does not compare the digests.
HashMatchesAny(actualHash, integrityHash) == TRUE

\* The integrity test of NewKVStoreFromDisk: the decoded stored digest equals
\* the digest of the body.
HashMatches(actualHash, integrityHash) == actualHash = integrityHash

\* One shard of NewKVStoreFromDisk: the file of shard i read, verified, decoded.
LoadShard(file) ==
    IF ~file.exists
    THEN [ok |-> TRUE, data |-> NewShardData]
    ELSE LET lines == SplitLines(file)
             integrityHash == HexDecodeString(lines[Len(lines)])
             mapData == SubSeq(lines, 1, Len(lines) - 1)
             actualHash == Md5Sum(mapData)
             decoded == JsonUnmarshal(mapData)
         IN IF ~integrityHash.ok THEN [ok |-> FALSE, data |-> NewShardData]
            ELSE IF ~HashMatches(actualHash, integrityHash.bytes)
                 THEN [ok |-> FALSE, data |-> NewShardData]
            ELSE IF ~decoded.ok THEN [ok |-> FALSE, data |-> NewShardData]
            ELSE [ok |-> TRUE, data |-> decoded.data]

\* A load that records the length 0 for every shard.
NewKVStoreFromDiskNoSizes(numShards, dir) ==
    LET bad == {i \in ShardIndexes(numShards) : ~LoadShard(dir[i]).ok}
    IN IF bad = {}
       THEN [err |-> NoError,
             Shards |-> [i \in ShardIndexes(numShards) |-> LoadShard(dir[i]).data],
             shardDimensions |-> [i \in ShardIndexes(numShards) |-> 0]]
       ELSE [err |-> NewUnloadableShardError(
                        CHOOSE i \in bad : \A j \in bad : i <= j),
             Shards |-> [i \in {} |-> NewShardData],
             shardDimensions |-> [i \in {} |-> 0]]

\* NewKVStoreFromDisk(numShards, directory): the store, or the error of the
\* first shard that cannot be loaded.
NewKVStoreFromDisk(numShards, dir) ==
    LET bad == {i \in ShardIndexes(numShards) : ~LoadShard(dir[i]).ok}
    IN IF bad = {}
       THEN [err |-> NoError,
             Shards |-> [i \in ShardIndexes(numShards) |-> LoadShard(dir[i]).data],
             shardDimensions |-> [i \in ShardIndexes(numShards) |->
                                    Cardinality(DOMAIN LoadShard(dir[i]).data)]]
       ELSE [err |-> NewUnloadableShardError(
                        CHOOSE i \in bad : \A j \in bad : i <= j),
             Shards |-> [i \in {} |-> NewShardData],
             shardDimensions |-> [i \in {} |-> 0]]

\* ------------------------------------------------------------- sync.RWMutex
\* A writer lock that does not wait for the readers.
CanLockNoReaders(m) == m.w = {}
CanLock(m) == m.w = {} /\ m.r = {}
\* A reader lock that does not wait for the writer.
CanRLockAlways(m) == TRUE
CanRLock(m) == m.w = {}
Lock(m, t) == [m EXCEPT !.w = @ \cup {t}]
\* An Unlock that leaves the writer in place.
UnlockKeeps(m, t) == m
Unlock(m, t) == [m EXCEPT !.w = @ \ {t}]
\* An RLock that does not register the reader.
RLockUnregistered(m, t) == m
RLock(m, t) == [m EXCEPT !.r = @ \cup {t}]
RUnlock(m, t) == [m EXCEPT !.r = @ \ {t}]

\* ------------------------------------------------------------------- state
NoLocal == [op |-> "none"]
NoRet == [op |-> "none"]
NoPut == [op |-> "none"]
NoEntry == [absent |-> TRUE]

\* The entry of key in map d, or NoEntry.
EntryOf(d, key) == IF key \in DOMAIN d THEN d[key] ELSE NoEntry

\* phase: "puts" while the store was built by NewKVStore, over a directory
\* whose files (if any) are as Flush wrote them, and changed by Puts only, no
\* ToDisk begun; "todisk" during the first ToDisk after that, no
\* change of the maps since it began; "saved" once that ToDisk has returned
\* nil, until the next change of maps or files; "again" during a ToDisk called
\* in phase "saved" and "resaved" once it has returned nil; "other" from then
\* on.
PhaseAfterPut == IF phase = "puts" THEN "puts" ELSE "other"
PhaseAfterToDiskCall ==
    CASE phase = "puts" -> "todisk"
      [] phase = "saved" -> "again"
      [] OTHER -> "other"
PhaseAfterToDisk(err) ==
    CASE phase = "todisk" /\ err = NoError -> "saved"
      [] phase = "again" /\ err = NoError -> "resaved"
      [] OTHER -> "other"

\* The process when rootCmd.Run has started the workers and the server and
\* waits on the signal channel: done is the number of values in the buffered
\* channel, sigints the SIGINTs delivered, tick[w] whether the channel of
\* worker w's ticker holds a tick.
\* req[t] is the request handler t is serving, resp the last response written,
\* shutdownErr whether httpServer.Shutdown returned an error.
Workers == {Cleaner, Flusher}
NoRequest == [method |-> "none"]
NewProcess ==
    [done |-> 0, sigints |-> 0, cancelled |-> FALSE,
     main |-> "wait_done", http |-> "serving",
     w |-> [x \in Workers |-> "running"],
     tick |-> [x \in Workers |-> FALSE],
     req |-> [t \in Clients |-> NoRequest],
     resp |-> [method |-> "none"],
     shutdownErr |-> FALSE]

\* Thread t is the handler of a request that has no response yet.
Serving(t) == proc.req[t] # NoRequest

\* The state after NewKVStore(NumShards, dir) on an empty directory, with n
\* calls to come; the directory has room for the files shard-0 .. shard-(d-1).
InitOver(n, d) ==
    /\ clock = 0
    /\ shards = NewKVStore(NumShards).Shards
    /\ shardDimensions = NewKVStore(NumShards).shardDimensions
    /\ mu = [i \in ShardIndexes(d) |-> NewMutex]
    /\ files = [i \in ShardIndexes(d) |-> NoFile]
    /\ pc = [t \in Threads |-> "idle"]
    /\ local = [t \in Threads |-> NoLocal]
    /\ ret = NoRet
    /\ budget = n
    /\ lastPut = [k \in Keys |-> NoPut]
    /\ window = [t \in Clients |-> {}]
    /\ phase = "puts"
    /\ foundEmpty = {}
    /\ proc = NewProcess

InitWith(n) == InitOver(n, NumShards)

Init == InitWith(MaxCalls)
InitReload ==
    InitOver(MaxReloadCalls,
             IF OtherNumShards > NumShards THEN OtherNumShards ELSE NumShards)

\* A thread may start a call while the process has a store (NewKVStoreFromDisk
\* returned one) and the run's budget of calls is not used up.
HasStore == DOMAIN shards # {}
CanCall(t) == pc[t] = "idle" /\ budget > 0 /\ HasStore
AllIdle == \A t \in Threads : pc[t] = "idle"

InGet(t) == pc[t] \in {"Get_rlock", "Get_read"}

\* Every Get in flight records the entry its key has after a change of the maps.
WindowAfter(S) ==
    [t \in Clients |->
        IF InGet(t)
        THEN window[t] \cup {EntryOf(S[local[t].shardIdx], local[t].key)}
        ELSE window[t]]

\* time passes
Tick ==
    /\ clock + TickMs <= MaxTime
    /\ clock' = clock + TickMs
    /\ UNCHANGED <<proc, shards, mu, shardDimensions, files, pc, local, ret, budget,
                   lastPut, window, phase, foundEmpty>>

\* ------------------------------------------------------------- KVStore.Put
PutCall(t, key, value, ttl) ==
    /\ CanCall(t)
    /\ pc' = [pc EXCEPT ![t] = "Put_lock"]
    /\ local' = [local EXCEPT ![t] =
                    [op |-> "Put", key |-> key, value |-> value, ttl |-> ttl,
                     actualTtl |-> ActualTtl(ttl),
                     shardIdx |-> findShard(shards, key)]]
    /\ budget' = budget - 1
    /\ UNCHANGED <<proc, clock, shards, mu, shardDimensions, files, ret, lastPut, window, phase,
                   foundEmpty>>

PutLock(t) ==
    /\ pc[t] = "Put_lock"
    /\ CanLock(mu[local[t].shardIdx])
    /\ mu' = [mu EXCEPT ![local[t].shardIdx] = Lock(@, t)]
    /\ pc' = [pc EXCEPT ![t] = "Put_store"]
    /\ UNCHANGED <<proc, clock, shards, shardDimensions, files, local, ret, budget,
                   lastPut, window, phase, foundEmpty>>

PutStore(t) ==
    /\ pc[t] = "Put_store"
    /\ shards' = [shards EXCEPT ![local[t].shardIdx] =
                     PutData(@, local[t].key,
                             NewShardEntry(local[t].value, local[t].actualTtl, clock))]
    /\ mu' = [mu EXCEPT ![local[t].shardIdx] = Unlock(@, t)]
    /\ pc' = [pc EXCEPT ![t] = "idle"]
    /\ ret' = [t |-> t, op |-> "Put", key |-> local[t].key]
    /\ local' = [local EXCEPT ![t] = NoLocal]
    /\ lastPut' = [lastPut EXCEPT ![local[t].key] =
                      [op |-> "Put", value |-> local[t].value,
                       ttl |-> local[t].ttl, at |-> clock,
                       n |-> IF @.op = "Put" THEN 2 ELSE 1]]
    /\ window' = WindowAfter(shards')
    /\ phase' = PhaseAfterPut
    /\ UNCHANGED <<proc, clock, shardDimensions, files, budget, foundEmpty>>

\* ------------------------------------------------------------- KVStore.Get
GetCall(t, key) ==
    /\ CanCall(t)
    /\ pc' = [pc EXCEPT ![t] = "Get_rlock"]
    /\ local' = [local EXCEPT ![t] =
                    [op |-> "Get", key |-> key, currentTime |-> clock,
                     shardIdx |-> findShard(shards, key)]]
    /\ budget' = budget - 1
    /\ window' = [window EXCEPT ![t] =
                     {EntryOf(shards[findShard(shards, key)], key)}]
    /\ UNCHANGED <<proc, clock, shards, mu, shardDimensions, files, ret, lastPut, phase,
                   foundEmpty>>

GetRLock(t) ==
    /\ pc[t] = "Get_rlock"
    /\ CanRLock(mu[local[t].shardIdx])
    /\ mu' = [mu EXCEPT ![local[t].shardIdx] = RLock(@, t)]
    /\ pc' = [pc EXCEPT ![t] = "Get_read"]
    /\ UNCHANGED <<proc, clock, shards, shardDimensions, files, local, ret, budget,
                   lastPut, window, phase, foundEmpty>>

\* A Get that deletes the expired entry it reports.
GetEffectLazyExpiry(d, key, currentTime) ==
    IF key \in DOMAIN d /\ IsExpired(d[key], currentTime)
    THEN DeleteData(d, key)
    ELSE d

\* The map after Get has read key under the reader lock: Get writes nothing.
GetEffect(d, key, currentTime) == d

\* A read of the map while another thread holds the writer lock is a data race:
\* the Go runtime gives it no defined result.
DataRace == [val |-> NilVal, err |-> [type |-> "DataRace"]]

GetRead(t) ==
    /\ pc[t] = "Get_read"
    /\ ret' = [t |-> t, op |-> "Get", key |-> local[t].key,
               currentTime |-> local[t].currentTime,
               seen |-> window[t],
               res |-> IF mu[local[t].shardIdx].w # {}
                       THEN DataRace
                       ELSE GetResult(shards[local[t].shardIdx], local[t].key,
                                      local[t].currentTime)]
    /\ shards' = [shards EXCEPT ![local[t].shardIdx] =
                     GetEffect(@, local[t].key, local[t].currentTime)]
    /\ mu' = [mu EXCEPT ![local[t].shardIdx] = RUnlock(@, t)]
    /\ pc' = [pc EXCEPT ![t] = "idle"]
    /\ local' = [local EXCEPT ![t] = IF Serving(t)
                                     THEN [op |-> "none", res |-> ret'.res]
                                     ELSE NoLocal]
    /\ window' = [window EXCEPT ![t] = {}]
    /\ UNCHANGED <<proc, clock, shardDimensions, files, budget, lastPut, phase, foundEmpty>>

\* ---------------------------------------------------------- KVStore.Delete
DeleteCall(t, key) ==
    /\ CanCall(t)
    /\ pc' = [pc EXCEPT ![t] = "Delete_lock"]
    /\ local' = [local EXCEPT ![t] =
                    [op |-> "Delete", key |-> key,
                     shardIdx |-> findShard(shards, key)]]
    /\ budget' = budget - 1
    /\ UNCHANGED <<proc, clock, shards, mu, shardDimensions, files, ret, lastPut, window, phase,
                   foundEmpty>>

DeleteLock(t) ==
    /\ pc[t] = "Delete_lock"
    /\ CanLock(mu[local[t].shardIdx])
    /\ mu' = [mu EXCEPT ![local[t].shardIdx] = Lock(@, t)]
    /\ pc' = [pc EXCEPT ![t] = "Delete_remove"]
    /\ UNCHANGED <<proc, clock, shards, shardDimensions, files, local, ret, budget,
                   lastPut, window, phase, foundEmpty>>

\* A Delete that also removes the snapshot file of the key's shard.
DeleteRemoveWithFile(t) ==
    /\ pc[t] = "Delete_remove"
    /\ shards' = [shards EXCEPT ![local[t].shardIdx] = DeleteData(@, local[t].key)]
    /\ files' = [files EXCEPT ![local[t].shardIdx] = NoFile]
    /\ mu' = [mu EXCEPT ![local[t].shardIdx] = Unlock(@, t)]
    /\ pc' = [pc EXCEPT ![t] = "idle"]
    /\ ret' = [t |-> t, op |-> "Delete", key |-> local[t].key]
    /\ local' = [local EXCEPT ![t] = NoLocal]
    /\ lastPut' = [lastPut EXCEPT ![local[t].key] = [op |-> "Delete"]]
    /\ window' = WindowAfter(shards')
    /\ phase' = "other"
    /\ UNCHANGED <<proc, clock, shardDimensions, budget, foundEmpty>>

DeleteRemove(t) ==
    /\ pc[t] = "Delete_remove"
    /\ shards' = [shards EXCEPT ![local[t].shardIdx] = DeleteData(@, local[t].key)]
    /\ mu' = [mu EXCEPT ![local[t].shardIdx] = Unlock(@, t)]
    /\ pc' = [pc EXCEPT ![t] = "idle"]
    /\ ret' = [t |-> t, op |-> "Delete", key |-> local[t].key]
    /\ local' = [local EXCEPT ![t] = NoLocal]
    /\ lastPut' = [lastPut EXCEPT ![local[t].key] = [op |-> "Delete"]]
    /\ window' = WindowAfter(shards')
    /\ phase' = "other"
    /\ UNCHANGED <<proc, clock, shardDimensions, files, budget, foundEmpty>>

\* ------------------------------------------ KVStore.Cleanup and Shard.Evict
\* Cleanup visits the shards in index order; Evict(i) samples the clock, takes
\* the writer lock, deletes the expired entries and releases the lock.
CleanupCall(t) ==
    /\ CanCall(t)
    /\ pc' = [pc EXCEPT ![t] = "Evict_begin"]
    /\ local' = [local EXCEPT ![t] = [op |-> "Cleanup", i |-> 0]]
    /\ budget' = budget - 1
    /\ UNCHANGED <<proc, clock, shards, mu, shardDimensions, files, ret, lastPut, window, phase,
                   foundEmpty>>

\* An Evict that takes the time of the process's start for the current time.
EvictBeginAtStart(t) ==
    /\ pc[t] = "Evict_begin"
    /\ local' = [local EXCEPT ![t] =
                    [op |-> "Cleanup", i |-> local[t].i, currentTime |-> 0]]
    /\ pc' = [pc EXCEPT ![t] = "Evict_lock"]
    /\ UNCHANGED <<proc, clock, shards, mu, shardDimensions, files, ret, budget,
                   lastPut, window, phase, foundEmpty>>

EvictBegin(t) ==
    /\ pc[t] = "Evict_begin"
    /\ local' = [local EXCEPT ![t] =
                    [op |-> "Cleanup", i |-> local[t].i, currentTime |-> clock]]
    /\ pc' = [pc EXCEPT ![t] = "Evict_lock"]
    /\ UNCHANGED <<proc, clock, shards, mu, shardDimensions, files, ret, budget,
                   lastPut, window, phase, foundEmpty>>

EvictLock(t) ==
    /\ pc[t] = "Evict_lock"
    /\ CanLock(mu[local[t].i])
    /\ mu' = [mu EXCEPT ![local[t].i] = Lock(@, t)]
    /\ pc' = [pc EXCEPT ![t] = "Evict_sweep"]
    /\ UNCHANGED <<proc, clock, shards, shardDimensions, files, local, ret, budget,
                   lastPut, window, phase, foundEmpty>>

EvictSweep(t) ==
    /\ pc[t] = "Evict_sweep"
    /\ shards' = [shards EXCEPT ![local[t].i] = EvictData(@, local[t].currentTime)]
    /\ mu' = [mu EXCEPT ![local[t].i] = Unlock(@, t)]
    /\ window' = WindowAfter(shards')
    /\ IF local[t].i + 1 < Cardinality(DOMAIN shards)
       THEN /\ pc' = [pc EXCEPT ![t] = "Evict_begin"]
            /\ local' = [local EXCEPT ![t] = [op |-> "Cleanup", i |-> local[t].i + 1]]
            /\ ret' = [t |-> t, op |-> "Evict", i |-> local[t].i,
                       currentTime |-> local[t].currentTime]
       ELSE /\ pc' = [pc EXCEPT ![t] = "idle"]
            /\ local' = [local EXCEPT ![t] = NoLocal]
            /\ ret' = [t |-> t, op |-> "Cleanup", i |-> local[t].i,
                       currentTime |-> local[t].currentTime]
    /\ phase' = IF shards' = shards THEN phase ELSE "other"
    /\ UNCHANGED <<proc, clock, shardDimensions, files, budget, lastPut, foundEmpty>>

\* --------------------------- KVStore.ToDisk, Shard.getLength, Shard.Flush
ToDiskCall(t) ==
    /\ CanCall(t)
    /\ pc' = [pc EXCEPT ![t] = "getLength_rlock"]
    /\ local' = [local EXCEPT ![t] = [op |-> "ToDisk", i |-> 0]]
    /\ budget' = budget - 1
    /\ phase' = PhaseAfterToDiskCall
    /\ UNCHANGED <<proc, clock, shards, mu, shardDimensions, files, ret, lastPut, window,
                   foundEmpty>>

GetLengthRLock(t) ==
    /\ pc[t] = "getLength_rlock"
    /\ CanRLock(mu[local[t].i])
    /\ mu' = [mu EXCEPT ![local[t].i] = RLock(@, t)]
    /\ pc' = [pc EXCEPT ![t] = "getLength_read"]
    /\ UNCHANGED <<proc, clock, shards, shardDimensions, files, local, ret, budget,
                   lastPut, window, phase, foundEmpty>>

\* A ToDisk that returns nil after the first shard it visits.
ToDiskContinueReturns(t) ==
    /\ pc' = [pc EXCEPT ![t] = "idle"]
    /\ local' = [local EXCEPT ![t] = NoLocal]
    /\ ret' = [t |-> t, op |-> "ToDisk", err |-> NoError]
    /\ phase' = PhaseAfterToDisk(NoError)

\* ToDisk goes on to shard i + 1, or returns nil after the last shard.
ToDiskContinue(t) ==
    IF local[t].i + 1 < Cardinality(DOMAIN shards)
    THEN /\ pc' = [pc EXCEPT ![t] = "getLength_rlock"]
         /\ local' = [local EXCEPT ![t] = [op |-> "ToDisk", i |-> local[t].i + 1]]
         /\ UNCHANGED <<ret, phase>>
    ELSE /\ pc' = [pc EXCEPT ![t] = "idle"]
         /\ local' = [local EXCEPT ![t] = NoLocal]
         /\ ret' = [t |-> t, op |-> "ToDisk", err |-> NoError]
         /\ phase' = PhaseAfterToDisk(NoError)

\* A change detection that also skips a shard that has grown.
UnchangedOrGrown(recorded, shardLength) == recorded <= shardLength

\* A change detection that skips empty shards only.
UnchangedIfEmpty(recorded, shardLength) == recorded = shardLength /\ shardLength = 0

\* A change detection that skips no shard.
UnchangedNever(recorded, shardLength) == FALSE

\* The change detection of ToDisk: a shard whose length equals the recorded
\* one is skipped.
Unchanged(recorded, shardLength) == recorded = shardLength

\* getLength reads the length of shard i and returns it, releasing the
\* reader lock: ToDisk has the length in shardLength and holds no lock.
GetLengthRead(t) ==
    /\ pc[t] = "getLength_read"
    /\ mu' = [mu EXCEPT ![local[t].i] = RUnlock(@, t)]
    /\ local' = [local EXCEPT ![t] =
                   [op |-> "ToDisk", i |-> local[t].i,
                    shardLength |-> Cardinality(DOMAIN shards[local[t].i])]]
    /\ pc' = [pc EXCEPT ![t] = "ToDisk_compare"]
    /\ UNCHANGED <<proc, clock, shards, shardDimensions, files, ret, budget,
                   lastPut, window, phase, foundEmpty>>

\* ToDisk compares shardLength with shardDimensions[i] and either skips the
\* shard or records shardLength and goes on to Flush.
ToDiskCompare(t) ==
    /\ pc[t] = "ToDisk_compare"
    /\ IF Unchanged(shardDimensions[local[t].i], local[t].shardLength)
       THEN /\ ToDiskContinue(t)
            /\ UNCHANGED shardDimensions
       ELSE /\ shardDimensions' =
                   [shardDimensions EXCEPT ![local[t].i] = local[t].shardLength]
            /\ pc' = [pc EXCEPT ![t] = "Flush_rlock"]
            /\ UNCHANGED <<local, ret, phase>>
    /\ UNCHANGED <<proc, clock, shards, mu, files, budget, lastPut, window, foundEmpty>>

FlushRLock(t) ==
    /\ pc[t] = "Flush_rlock"
    /\ CanRLock(mu[local[t].i])
    /\ mu' = [mu EXCEPT ![local[t].i] = RLock(@, t)]
    /\ pc' = [pc EXCEPT ![t] = "Flush_write"]
    /\ UNCHANGED <<proc, clock, shards, shardDimensions, files, local, ret, budget,
                   lastPut, window, phase, foundEmpty>>

\* A Flush that keeps the entries of the old file beside those of the map.
FlushWriteKeepsOld(t, writeOk) ==
    /\ pc[t] = "Flush_write"
    /\ writeOk
    /\ mu' = [mu EXCEPT ![local[t].i] = RUnlock(@, t)]
    /\ IF Cardinality(DOMAIN shards[local[t].i]) = 0
       THEN UNCHANGED files
       ELSE files' = [files EXCEPT ![local[t].i] =
                        FlushContent(shards[local[t].i]
                                     @@ LoadShard(files[local[t].i]).data)]
    /\ ToDiskContinue(t)
    /\ UNCHANGED <<proc, clock, shards, shardDimensions, budget, lastPut, window, foundEmpty>>

\* A Flush that writes the file of an empty map too.
FlushWriteEmptyToo(t, writeOk) ==
    /\ pc[t] = "Flush_write"
    /\ mu' = [mu EXCEPT ![local[t].i] = RUnlock(@, t)]
    /\ IF writeOk
       THEN /\ files' = [files EXCEPT ![local[t].i] =
                            FlushContent(shards[local[t].i])]
            /\ ToDiskContinue(t)
       ELSE /\ UNCHANGED files
            /\ pc' = [pc EXCEPT ![t] = "idle"]
            /\ local' = [local EXCEPT ![t] = NoLocal]
            /\ ret' = [t |-> t, op |-> "ToDisk",
                       err |-> [type |-> "WriteFile", i |-> local[t].i]]
            /\ phase' = PhaseAfterToDisk([type |-> "WriteFile", i |-> local[t].i])
    /\ UNCHANGED <<proc, clock, shards, shardDimensions, budget, lastPut, window, foundEmpty>>

\* A ToDisk that goes on to the next shard after a Flush that failed.
FlushWriteGoesOn(t, writeOk) ==
    /\ pc[t] = "Flush_write"
    /\ mu' = [mu EXCEPT ![local[t].i] = RUnlock(@, t)]
    /\ IF writeOk /\ Cardinality(DOMAIN shards[local[t].i]) # 0
       THEN files' = [files EXCEPT ![local[t].i] = FlushContent(shards[local[t].i])]
       ELSE UNCHANGED files
    /\ ToDiskContinue(t)
    /\ UNCHANGED <<proc, clock, shards, shardDimensions, budget, lastPut, window, foundEmpty>>

\* Flush under the reader lock: nothing for an empty map, else the file is
\* written (writeOk) or os.WriteFile fails, leaving of the file what a failed
\* write can leave, and ToDisk returns its error.
FlushWrite(t, writeOk) ==
    /\ pc[t] = "Flush_write"
    /\ mu' = [mu EXCEPT ![local[t].i] = RUnlock(@, t)]
    /\ IF Cardinality(DOMAIN shards[local[t].i]) = 0
       THEN /\ writeOk
            /\ UNCHANGED files
            /\ foundEmpty' = IF shardDimensions[local[t].i] > 0
                             THEN foundEmpty \cup {local[t].i}
                             ELSE foundEmpty \ {local[t].i}
            /\ ToDiskContinue(t)
       ELSE IF writeOk
            THEN /\ files' = [files EXCEPT ![local[t].i] =
                                 FlushContent(shards[local[t].i])]
                 /\ foundEmpty' = foundEmpty \ {local[t].i}
                 /\ ToDiskContinue(t)
            ELSE /\ \E left \in WriteFileFailed(files[local[t].i],
                                                  shards[local[t].i]) :
                      files' = [files EXCEPT ![local[t].i] = left]
                 /\ UNCHANGED foundEmpty
                 /\ pc' = [pc EXCEPT ![t] = "idle"]
                 /\ local' = [local EXCEPT ![t] = NoLocal]
                 /\ ret' = [t |-> t, op |-> "ToDisk",
                            err |-> [type |-> "WriteFile", i |-> local[t].i]]
                 /\ phase' = PhaseAfterToDisk(
                                 [type |-> "WriteFile", i |-> local[t].i])
    /\ UNCHANGED <<proc, clock, shards, shardDimensions, budget, lastPut, window>>

\* The file is as Flush wrote it.
IsIntact(file) ==
    /\ file.exists
    /\ Len(file.lines) = 2
    /\ file.lines[1].kind = "json" /\ file.lines[1].flip = "none"
    /\ file.lines[2] = HexEncodeToString(Md5Sum(<<file.lines[1]>>))

\* ------------------------------------------------ process start (cmd root)
\* The process is started again on the same directory, all threads at rest:
\* with load it builds the store with NewKVStoreFromDisk and exits when that
\* fails, without load it builds an empty store with NewKVStore.
RestartWith(load, numShards) ==
    /\ AllIdle /\ HasStore
    /\ LET kv == IF load THEN NewKVStoreFromDisk(numShards, files)
                 ELSE NewKVStore(numShards) @@ [err |-> NoError]
       IN /\ shards' = kv.Shards
          /\ shardDimensions' = kv.shardDimensions
          /\ ret' = [t |-> "main", op |-> "Start", load |-> load, err |-> kv.err,
                     from |-> phase]
    /\ lastPut' = [k \in Keys |-> NoPut]
    /\ foundEmpty' = {}
    /\ phase' = IF ~load /\ \A i \in DOMAIN files :
                                ~files[i].exists \/ IsIntact(files[i])
                THEN "puts"
                ELSE "other"
    /\ UNCHANGED <<proc, clock, mu, files, pc, local, window, budget>>

\* The process is started again with the same number of shards.
Restart(load) == RestartWith(load, NumShards)

\* ------------------------------------------- damage to the snapshot files
\* A byte of the body is changed: a digit of the timestamp of key `how`, so
\* that the body stays JSON, or (how = "syntax") a byte whose change leaves
\* no JSON.
FlipBodyByte(i, how) ==
    /\ AllIdle
    /\ IsIntact(files[i])
    /\ how = "syntax" \/ how \in DOMAIN files[i].lines[1].obj
    /\ files' = IF how = "syntax"
                THEN [files EXCEPT ![i].lines[1].flip = "syntax"]
                ELSE [files EXCEPT ![i].lines[1].flip = "digit",
                                   ![i].lines[1].obj[how].timestamp = @ + 1]
    /\ phase' = "other"
    /\ UNCHANGED <<proc, clock, shards, mu, shardDimensions, pc, local, ret, budget,
                   lastPut, window, foundEmpty>>

\* The digest line is cut to its first n hex digits.
TruncateDigest(i, n) ==
    /\ AllIdle
    /\ IsIntact(files[i])
    /\ files' = [files EXCEPT ![i].lines[2].n = n]
    /\ phase' = "other"
    /\ UNCHANGED <<proc, clock, shards, mu, shardDimensions, pc, local, ret, budget,
                   lastPut, window, foundEmpty>>

\* The digest line is removed together with the newline before it.
RemoveDigest(i) ==
    /\ AllIdle
    /\ IsIntact(files[i])
    /\ files' = [files EXCEPT ![i].lines = <<files[i].lines[1]>>]
    /\ phase' = "other"
    /\ UNCHANGED <<proc, clock, shards, mu, shardDimensions, pc, local, ret, budget,
                   lastPut, window, foundEmpty>>

\* ------------------------------------------------------- specifications
\* Keys and TTLs the concurrent callers use.
ConcKeys == {"hello", "k"}
ConcTtls == {Nil, <<1>>}

\* The value a client writes.
ValueOf(t) == IF t = "c1" THEN IntVal(1) ELSE Float64Val(2)

Steps ==
    \/ \E t \in Clients : PutLock(t)
    \/ \E t \in Clients : PutStore(t)
    \/ \E t \in Clients : GetRLock(t)
    \/ \E t \in Clients : GetRead(t)
    \/ \E t \in Clients : DeleteLock(t)
    \/ \E t \in Clients : DeleteRemove(t)
    \/ EvictBegin(Cleaner)
    \/ EvictLock(Cleaner)
    \/ EvictSweep(Cleaner)
    \/ GetLengthRLock(Flusher)
    \/ GetLengthRead(Flusher)
    \/ ToDiskCompare(Flusher)
    \/ FlushRLock(Flusher)

\* Request handlers, the cleanup worker and the flush worker run concurrently.
Next ==
    \/ Tick
    \/ \E t \in Clients, key \in ConcKeys, ttl \in ConcTtls :
          PutCall(t, key, ValueOf(t), ttl)
    \/ \E t \in Clients, key \in ConcKeys : GetCall(t, key)
    \/ \E t \in Clients, key \in ConcKeys : DeleteCall(t, key)
    \/ CleanupCall(Cleaner)
    \/ ToDiskCall(Flusher)
    \/ FlushWrite(Flusher, TRUE)
    \/ Steps

Spec == Init /\ [][Next]_vars

\* One caller at a time, every call running to its return before the next
\* call starts, on two keys of one shard with every value and TTL: the TTL
\* rules of Put, Get, Delete and Cleanup as time passes.
TtlKeys == {"hello", "bye"}

NextTtl ==
    \/ AllIdle /\ Tick
    \/ AllIdle /\ \E key \in TtlKeys, value \in Values, ttl \in TtlArgs :
                     PutCall("c1", key, value, ttl)
    \/ AllIdle /\ \E key \in TtlKeys : GetCall("c1", key)
    \/ AllIdle /\ \E key \in TtlKeys : DeleteCall("c1", key)
    \/ AllIdle /\ CleanupCall(Cleaner)
    \/ PutLock("c1") \/ PutStore("c1")
    \/ GetRLock("c1") \/ GetRead("c1")
    \/ DeleteLock("c1") \/ DeleteRemove("c1")
    \/ EvictBegin(Cleaner) \/ EvictLock(Cleaner) \/ EvictSweep(Cleaner)

SpecTtl == InitWith(MaxTtlCalls) /\ [][NextTtl]_vars

\* The snapshot files: one caller at a time changes the store and calls
\* ToDisk, whose file writes may fail; the process may be started again on
\* the same directory, and the files may be damaged before that start.
Damage ==
    \/ \E i \in ShardIndexes(NumShards), how \in Keys \cup {"syntax"} :
          FlipBodyByte(i, how)
    \/ \E i \in ShardIndexes(NumShards), n \in {0, 30, 31} : TruncateDigest(i, n)
    \/ \E i \in ShardIndexes(NumShards) : RemoveDigest(i)

NextDisk ==
    \/ AllIdle /\ \E key \in Keys, value \in Values :
                     PutCall("c1", key, value, Nil)
    \/ AllIdle /\ \E key \in Keys : DeleteCall("c1", key)
    \/ AllIdle /\ ToDiskCall(Flusher)
    \/ PutLock("c1") \/ PutStore("c1")
    \/ DeleteLock("c1") \/ DeleteRemove("c1")
    \/ GetLengthRLock(Flusher) \/ GetLengthRead(Flusher)
    \/ ToDiskCompare(Flusher) \/ FlushRLock(Flusher)
    \/ \E writeOk \in BOOLEAN : FlushWrite(Flusher, writeOk)
    \/ \E load \in BOOLEAN : Restart(load)
    \/ Damage

SpecDisk == InitWith(MaxDiskCalls) /\ [][NextDisk]_vars

\* Request handlers only: two threads run Put, Get and Delete on the keys of
\* both shards. Every thread that can take a step eventually takes one (the
\* Go scheduler runs every runnable goroutine; a blocked Lock or RLock is
\* granted once the mutex is free).
ClientSteps(t) ==
    \/ PutLock(t) \/ PutStore(t)
    \/ GetRLock(t) \/ GetRead(t)
    \/ DeleteLock(t) \/ DeleteRemove(t)

NextRace ==
    \/ \E t \in Clients, key \in ConcKeys : PutCall(t, key, ValueOf(t), Nil)
    \/ \E t \in Clients, key \in ConcKeys : GetCall(t, key)
    \/ \E t \in Clients, key \in ConcKeys : DeleteCall(t, key)
    \/ \E t \in Clients : ClientSteps(t)

SpecRace ==
    /\ InitWith(MaxRaceCalls)
    /\ [][NextRace]_vars
    /\ \A t \in Clients : WF_vars(ClientSteps(t))

\* One caller at a time changes the store, runs Cleanup and ToDisk as time
\* passes; the process may be started again on the same directory with the
\* same or with another number of shards, with or without load.
NextReload ==
    \/ AllIdle /\ Tick
    \/ AllIdle /\ \E key \in Keys, ttl \in ConcTtls :
                     PutCall("c1", key, IntVal(1), ttl)
    \/ AllIdle /\ \E key \in Keys : DeleteCall("c1", key)
    \/ AllIdle /\ CleanupCall(Cleaner)
    \/ AllIdle /\ ToDiskCall(Flusher)
    \/ PutLock("c1") \/ PutStore("c1")
    \/ DeleteLock("c1") \/ DeleteRemove("c1")
    \/ EvictBegin(Cleaner) \/ EvictLock(Cleaner) \/ EvictSweep(Cleaner)
    \/ GetLengthRLock(Flusher) \/ GetLengthRead(Flusher)
    \/ ToDiskCompare(Flusher) \/ FlushRLock(Flusher)
    \/ FlushWrite(Flusher, TRUE)
    \/ \E load \in BOOLEAN, numShards \in {NumShards, OtherNumShards} :
          RestartWith(load, numShards)

SpecReload == InitReload /\ [][NextReload]_vars

\* ------------------------------------- workers (workers.go) and rootCmd.Run
\* The cases of a worker's select that can proceed.
DoneReady(p) == p.done > 0
\* A worker that never sees the context cancelled.
CtxDoneNever(p) == FALSE
CtxDoneReady(p) == p.cancelled

\* A worker that leaves its loop when ToDisk has returned an error.
AtSelectUnlessFailed(w) ==
    /\ proc.w[w] = "running"
    /\ pc[w] = "idle"
    /\ ~(ret.op = "ToDisk" /\ ret.t = w /\ ret.err # NoError)

\* Worker w is at its select: it runs and its last ToDisk or Cleanup returned.
AtSelect(w) == proc.w[w] = "running" /\ pc[w] = "idle"

\* The ticker of worker w sends a tick unless its channel holds one already.
TickerSend(w) ==
    /\ proc.w[w] = "running"
    /\ ~proc.tick[w]
    /\ proc' = [proc EXCEPT !.tick[w] = TRUE]
    /\ UNCHANGED <<clock, shards, mu, shardDimensions, files, pc, local, ret,
                   budget, lastPut, window, phase, foundEmpty>>

\* A tick that counts in the run's budget of calls.
TickerFire(w) == budget > 0 /\ TickerSend(w)

\* case <-done: the worker takes the signal value and returns.
WorkerDone(w) ==
    /\ AtSelect(w)
    /\ DoneReady(proc)
    /\ proc' = [proc EXCEPT !.done = @ - 1, !.w[w] = "stopped"]
    /\ UNCHANGED <<clock, shards, mu, shardDimensions, files, pc, local, ret,
                   budget, lastPut, window, phase, foundEmpty>>

\* case <-ctx.Done(): the worker returns.
WorkerCtxDone(w) ==
    /\ AtSelect(w)
    /\ CtxDoneReady(proc)
    /\ proc' = [proc EXCEPT !.w[w] = "stopped"]
    /\ UNCHANGED <<clock, shards, mu, shardDimensions, files, pc, local, ret,
                   budget, lastPut, window, phase, foundEmpty>>

\* case <-ticker.C: the worker takes the tick and calls ToDisk or Cleanup.
\* select chooses among the cases that can proceed, so this case may be taken
\* while done or ctx.Done() can proceed too.
WorkerTake(w) ==
    /\ AtSelect(w)
    /\ proc.tick[w]
    /\ HasStore
    /\ proc' = [proc EXCEPT !.tick[w] = FALSE]
    /\ IF w = Flusher
       THEN /\ pc' = [pc EXCEPT ![w] = "getLength_rlock"]
            /\ local' = [local EXCEPT ![w] = [op |-> "ToDisk", i |-> 0]]
            /\ phase' = PhaseAfterToDiskCall
       ELSE /\ pc' = [pc EXCEPT ![w] = "Evict_begin"]
            /\ local' = [local EXCEPT ![w] = [op |-> "Cleanup", i |-> 0]]
            /\ UNCHANGED phase
    /\ UNCHANGED <<clock, shards, mu, shardDimensions, files, ret, lastPut, window, foundEmpty>>

\* The worker's call counted in the run's budget of calls.
WorkerTick(w) == CanCall(w) /\ budget' = budget - 1 /\ WorkerTake(w)

\* A SIGINT arrives: signal.Notify puts a value on done unless it is full.
Sigint ==
    /\ proc.sigints < MaxSigints
    /\ proc' = [proc EXCEPT !.sigints = @ + 1,
                            !.done = IF @ < 1 THEN @ + 1 ELSE @]
    /\ UNCHANGED <<clock, shards, mu, shardDimensions, files, pc, local, ret,
                   budget, lastPut, window, phase, foundEmpty>>

\* <-done in rootCmd.Run
MainReceive ==
    /\ proc.main = "wait_done"
    /\ DoneReady(proc)
    /\ proc' = [proc EXCEPT !.done = @ - 1, !.main = "Shutdown"]
    /\ UNCHANGED <<clock, shards, mu, shardDimensions, files, pc, local, ret,
                   budget, lastPut, window, phase, foundEmpty>>

\* httpServer.Shutdown begins: the listeners are closed at once, so no new
\* request is accepted from here on; the handlers in flight go on.
MainShutdown ==
    /\ proc.main = "Shutdown"
    /\ proc' = [proc EXCEPT !.http = "closed", !.main = "Shutdown_wait"]
    /\ UNCHANGED <<clock, shards, mu, shardDimensions, files, pc, local, ret,
                   budget, lastPut, window, phase, foundEmpty>>

\* httpServer.Shutdown returns nil: no handler is in flight any more (none
\* is in a store call, none has its response still to write).
MainShutdownReturn ==
    /\ proc.main = "Shutdown_wait"
    /\ \A t \in Clients : pc[t] = "idle" /\ ~Serving(t)
    /\ proc' = [proc EXCEPT !.main = "cancel"]
    /\ UNCHANGED <<clock, shards, mu, shardDimensions, files, pc, local, ret,
                   budget, lastPut, window, phase, foundEmpty>>

\* shutdownCtx expires (10 s) with a handler still in flight: Shutdown
\* returns the context's error, main prints it and goes on to cancel().
MainShutdownTimeout ==
    /\ proc.main = "Shutdown_wait"
    /\ \E t \in Clients : pc[t] # "idle" \/ Serving(t)
    /\ proc' = [proc EXCEPT !.shutdownErr = TRUE, !.main = "cancel"]
    /\ UNCHANGED <<clock, shards, mu, shardDimensions, files, pc, local, ret,
                   budget, lastPut, window, phase, foundEmpty>>

\* cancel()
MainCancel ==
    /\ proc.main = "cancel"
    /\ proc' = [proc EXCEPT !.cancelled = TRUE, !.main = "wg_wait"]
    /\ UNCHANGED <<clock, shards, mu, shardDimensions, files, pc, local, ret,
                   budget, lastPut, window, phase, foundEmpty>>

\* wg.Wait() returns when both workers have returned; "Application stopped":
\* Run returns and the process exits, with it every handler still in flight.
MainStopped ==
    /\ proc.main = "wg_wait"
    /\ \A w \in Workers : proc.w[w] = "stopped"
    /\ proc' = [proc EXCEPT !.main = "stopped"]
    /\ UNCHANGED <<clock, shards, mu, shardDimensions, files, pc, local, ret,
                   budget, lastPut, window, phase, foundEmpty>>

\* The running process: a request handler that Puts while the listener is
\* open, the two workers on their tickers, the main routine, one SIGINT.
\* Every routine that can take a step eventually takes one, and a worker at
\* its select with done or ctx.Done() able to proceed eventually takes one of
\* them (select chooses at random among the cases that can proceed).
StoreSteps ==
    \/ PutLock("c1") \/ PutStore("c1")
    \/ EvictBegin(Cleaner) \/ EvictLock(Cleaner) \/ EvictSweep(Cleaner)
    \/ GetLengthRLock(Flusher) \/ GetLengthRead(Flusher)
    \/ ToDiskCompare(Flusher) \/ FlushRLock(Flusher)
    \/ FlushWrite(Flusher, TRUE)

MainSteps ==
    \/ MainReceive \/ MainShutdown \/ MainShutdownReturn \/ MainShutdownTimeout
    \/ MainCancel \/ MainStopped

NextShutdown ==
    \/ proc.http = "serving" /\ PutCall("c1", "hello", IntVal(1), Nil)
    \/ \E w \in Workers : TickerFire(w)
    \/ \E w \in Workers : WorkerTick(w)
    \/ \E w \in Workers : WorkerDone(w)
    \/ \E w \in Workers : WorkerCtxDone(w)
    \/ Sigint
    \/ MainSteps
    \/ proc.main # "stopped" /\ StoreSteps

SpecShutdown ==
    /\ InitWith(MaxShutdownCalls)
    /\ [][NextShutdown]_vars
    /\ WF_vars(proc.main # "stopped" /\ StoreSteps)
    /\ WF_vars(MainSteps)
    /\ \A w \in Workers : WF_vars(WorkerDone(w) \/ WorkerCtxDone(w))

\* ------------------------------------------------- handlers (server.go)
StatusOK == 200
StatusCreated == 201
StatusNoContent == 204
StatusMovedPermanently == 301
StatusBadRequest == 400
StatusNotFound == 404
StatusMethodNotAllowed == 405

\* A request body: first is the kind of the JSON value its bytes begin with
\* ("none" when they begin with no complete JSON value), members are the
\* members of that value in order when it is an object, and rest says whether
\* more bytes follow the value.
JsonString(x) == [string |-> x]
JsonNumber(n) == [number |-> n]
JsonNull == [null |-> TRUE]
Body(members, rest) == [first |-> "object", members |-> members, rest |-> rest]
NotJson == [first |-> "none", members |-> << >>, rest |-> FALSE]

NewSetRequest == [Key |-> "", Value |-> NilVal, Ttl |-> Nil]

\* A member name is the sequence of its runes; "U+212A" is the Kelvin sign.
\* The fold of a name, by which encoding/json compares names: every rune is
\* replaced by the least rune that differs from it in letter case only, which
\* is the capital for an ASCII letter and K for the Kelvin sign ("U+017F",
\* the long s, goes to S).
FoldName(name) ==
    LET lower == <<"a", "b", "c", "d", "e", "f", "g", "h", "i", "j", "k", "l", "m",
                   "n", "o", "p", "q", "r", "s", "t", "u", "v", "w", "x", "y", "z">>
        upper == <<"A", "B", "C", "D", "E", "F", "G", "H", "I", "J", "K", "L", "M",
                   "N", "O", "P", "Q", "R", "S", "T", "U", "V", "W", "X", "Y", "Z">>
        foldRune(c) ==
            IF \E n \in 1..26 : lower[n] = c
            THEN upper[CHOOSE n \in 1..26 : lower[n] = c]
            ELSE IF c = "U+212A" THEN "K"
            ELSE IF c = "U+017F" THEN "S"
            ELSE c
    IN [n \in 1..Len(name) |-> foldRune(name[n])]

\* The field of SetRequest a member name is decoded into: the field whose
\* json name has the fold of the member's name.
FieldOf(name) ==
    CASE FoldName(name) = FoldName(<<"k", "e", "y">>) -> "key"
      [] FoldName(name) = FoldName(<<"v", "a", "l", "u", "e">>) -> "value"
      [] FoldName(name) = FoldName(<<"t", "t", "l">>) -> "ttl"
      [] OTHER -> "none"

\* Decoding the members of an object into a SetRequest with
\* DisallowUnknownFields, in the order of the body: a member that is no field
\* of SetRequest is an error, and so is a value that does not fit the field's
\* type; null leaves the string Key as it is and sets the pointer Ttl and the
\* any Value to nil.
RECURSIVE DecodeMembers(_, _)
DecodeMembers(ms, req) ==
    IF ms = << >> THEN [err |-> NoError, req |-> req]
    ELSE LET name == FieldOf(Head(ms)[1])
             j == Head(ms)[2]
         IN CASE name = "key" ->
                   IF "string" \in DOMAIN j
                   THEN DecodeMembers(Tail(ms), [req EXCEPT !.Key = j.string])
                   ELSE IF "null" \in DOMAIN j
                        THEN DecodeMembers(Tail(ms), req)
                        ELSE [err |-> [type |-> "Decode", why |-> "type"],
                              req |-> req]
              [] name = "value" ->
                   DecodeMembers(Tail(ms),
                                 [req EXCEPT !.Value = JsonUnmarshalValue(j)])
              [] name = "ttl" ->
                   IF "number" \in DOMAIN j
                   THEN DecodeMembers(Tail(ms), [req EXCEPT !.Ttl = <<j.number>>])
                   ELSE IF "null" \in DOMAIN j
                        THEN DecodeMembers(Tail(ms), [req EXCEPT !.Ttl = Nil])
                        ELSE [err |-> [type |-> "Decode", why |-> "type"],
                              req |-> req]
              [] OTHER -> [err |-> [type |-> "Decode", why |-> "unknown field"],
                           req |-> req]

\* decoder.Decode(&req): reads the first JSON value of the body and decodes
\* it; bytes after that value are not read.  An object is decoded member by
\* member; null decodes into a struct without an error and leaves it as it
\* is; a value of another kind does not fit the struct; bytes that begin
\* with no JSON value are a syntax error.
Decode(body) ==
    CASE body.first = "object" -> DecodeMembers(body.members, NewSetRequest)
      [] body.first = "null" -> [err |-> NoError, req |-> NewSetRequest]
      [] body.first = "none" ->
           [err |-> [type |-> "Decode", why |-> "syntax"], req |-> NewSetRequest]
      [] OTHER -> [err |-> [type |-> "Decode", why |-> "type"], req |-> NewSetRequest]

\* strings.TrimSpace of the path keys used.
TrimSpace(key) == IF key = "   " THEN "" ELSE key

\* handlePost: 400 when the body does not decode, else Put and then 201.
HandlePost(t, body) ==
    /\ CanCall(t)
    /\ ~Serving(t)
    /\ budget' = budget - 1
    /\ IF Decode(body).err # NoError
       THEN /\ proc' = [proc EXCEPT !.resp = [t |-> t, method |-> "POST",
                                              status |-> StatusBadRequest,
                                              body |-> body]]
            /\ UNCHANGED <<pc, local>>
       ELSE /\ proc' = [proc EXCEPT !.req[t] = [method |-> "POST", body |-> body]]
            /\ pc' = [pc EXCEPT ![t] = "Put_lock"]
            /\ local' = [local EXCEPT ![t] =
                           [op |-> "Put", key |-> Decode(body).req.Key,
                            value |-> Decode(body).req.Value,
                            ttl |-> Decode(body).req.Ttl,
                            actualTtl |-> ActualTtl(Decode(body).req.Ttl),
                            shardIdx |-> findShard(shards, Decode(body).req.Key)]]
    /\ UNCHANGED <<clock, shards, mu, shardDimensions, files, ret, lastPut,
                   window, phase, foundEmpty>>

\* handleGet: 400 on a blank key, else Get and then 404 or 200 with the value.
HandleGet(t, method, key) ==
    /\ CanCall(t)
    /\ ~Serving(t)
    /\ budget' = budget - 1
    /\ IF TrimSpace(key) = ""
       THEN /\ proc' = [proc EXCEPT !.resp = [t |-> t, method |-> method,
                                              status |-> StatusBadRequest,
                                              key |-> key]]
            /\ UNCHANGED <<pc, local, window>>
       ELSE /\ proc' = [proc EXCEPT !.req[t] = [method |-> method, key |-> key]]
            /\ pc' = [pc EXCEPT ![t] = "Get_rlock"]
            /\ local' = [local EXCEPT ![t] =
                           [op |-> "Get", key |-> key, currentTime |-> clock,
                            shardIdx |-> findShard(shards, key)]]
            /\ window' = [window EXCEPT ![t] =
                             {EntryOf(shards[findShard(shards, key)], key)}]
    /\ UNCHANGED <<clock, shards, mu, shardDimensions, files, ret, lastPut, phase, foundEmpty>>

\* handleDelete: 400 on an empty key, else Delete and then 204.
HandleDelete(t, key) ==
    /\ CanCall(t)
    /\ ~Serving(t)
    /\ budget' = budget - 1
    /\ IF key = ""
       THEN /\ proc' = [proc EXCEPT !.resp = [t |-> t, method |-> "DELETE",
                                              status |-> StatusBadRequest,
                                              key |-> key]]
            /\ UNCHANGED <<pc, local>>
       ELSE /\ proc' = [proc EXCEPT !.req[t] = [method |-> "DELETE", key |-> key,
                                                present |-> \E i \in DOMAIN shards :
                                                               key \in DOMAIN shards[i]]]
            /\ pc' = [pc EXCEPT ![t] = "Delete_lock"]
            /\ local' = [local EXCEPT ![t] =
                           [op |-> "Delete", key |-> key,
                            shardIdx |-> findShard(shards, key)]]
    /\ UNCHANGED <<clock, shards, mu, shardDimensions, files, ret, lastPut,
                   window, phase, foundEmpty>>

\* The store call of handler t has returned: the handler writes its response,
\* handleGet from the val and err its own Get returned.
HandlerStatus(t) ==
    CASE proc.req[t].method = "POST" -> StatusCreated
      [] proc.req[t].method = "DELETE" -> StatusNoContent
      [] proc.req[t].method \in {"GET", "HEAD"} ->
           IF local[t].res.err # NoError THEN StatusNotFound ELSE StatusOK

\* The body of the response: GetResponse{Value: val} after a Get without
\* error; the answer to a HEAD request is sent without its body.
HandlerBody(t) ==
    IF proc.req[t].method = "GET" /\ local[t].res.err = NoError
    THEN [value |-> JsonMarshalValue(local[t].res.val)]
    ELSE [value |-> JsonNull]

HandlerWrite(t) ==
    /\ Serving(t)
    /\ pc[t] = "idle"
    /\ proc' = [proc EXCEPT
                  !.req[t] = NoRequest,
                  !.resp = [t |-> t, status |-> HandlerStatus(t)]
                           @@ HandlerBody(t) @@ proc.req[t]]
    /\ local' = [local EXCEPT ![t] = NoLocal]
    /\ UNCHANGED <<clock, shards, mu, shardDimensions, files, pc, ret,
                   budget, lastPut, window, phase, foundEmpty>>

\* The request bodies sent: well-formed ones with and without ttl, the body
\* {"hello": "key"}, a well-formed request with one more member, a key that
\* is a number, bytes that are no JSON, a well-formed request followed by
\* more bytes, a ttl given twice (a number, then null), members named kEy,
\* vaLue and tTl, a member named key with the Kelvin sign for its k, a
\* value that is a string, the body null and the body 1.
PostBodies ==
    LET key == <<"k", "e", "y">>
        value == <<"v", "a", "l", "u", "e">>
        ttl == <<"t", "t", "l">>
    IN {Body(<< <<key, JsonString("hello")>>, <<value, JsonNumber(1)>> >>, FALSE),
        Body(<< <<key, JsonString("k")>>, <<value, JsonNumber(1)>>,
                <<ttl, JsonNumber(1)>> >>, FALSE),
        Body(<< <<<<"h", "e", "l", "l", "o">>, JsonString("key")>> >>, FALSE),
        Body(<< <<key, JsonString("hello")>>, <<value, JsonNumber(1)>>,
                <<<<"e", "x", "t", "r", "a">>, JsonNumber(1)>> >>, FALSE),
        Body(<< <<key, JsonNumber(1)>> >>, FALSE),
        NotJson,
        Body(<< <<key, JsonString("hello")>>, <<value, JsonNumber(1)>> >>, TRUE),
        Body(<< <<ttl, JsonNumber(1)>>, <<ttl, JsonNull>>,
                <<key, JsonString("k")>> >>, FALSE),
        Body(<< <<<<"k", "E", "y">>, JsonString("hello")>>,
                <<<<"v", "a", "L", "u", "e">>, JsonNumber(1)>>,
                <<<<"t", "T", "l">>, JsonNull>> >>, FALSE),
        Body(<< <<<<"U+212A", "e", "y">>, JsonString("k")>> >>, FALSE),
        Body(<< <<key, JsonString("hello")>>, <<value, JsonString("x")>> >>, FALSE),
        [NotJson EXCEPT !.first = "null"],
        [NotJson EXCEPT !.first = "number"]}

\* The last segment of the paths requested under /kv/, as it is written in
\* the request (percent-encoded): a key, a key of three spaces, nothing
\* (the path /kv/) and the dot segments.
PathSegments == {"hello", "%20%20%20", "", ".", ".."}

\* url.PathUnescape of the segments used: only the key of spaces is encoded.
PathUnescape(seg) == IF seg = "%20%20%20" THEN "   " ELSE seg

\* A request: its method, the segments of its escaped path ("/kv" is <<"kv">>,
\* "/kv/" is <<"kv", "">>, "/kv//hello" is <<"kv", "", "hello">>, "/" is << >>)
\* and its body.
Request(method, path, body) == [method |-> method, body |-> body, path |-> path]

Requests ==
    {Request("POST", <<"kv">>, body) : body \in PostBodies}
    \cup {Request("DELETE", <<"kv", seg>>, NotJson) : seg \in PathSegments}
    \cup {Request("GET", <<"kv", seg>>, NotJson) : seg \in PathSegments \ {".."}}
    \cup {Request(method, <<"kv", "hello">>, NotJson) : method \in {"HEAD", "POST"}}
    \cup {Request(method, <<"kv">>, NotJson) : method \in {"GET", "DELETE"}}
    \cup {Request("DELETE", <<"kv", "", "hello">>, NotJson),
          Request("CONNECT", <<"kv", ".">>, NotJson),
          Request("GET", << >>, NotJson)}

\* cleanPath of the mux, on the segments of the escaped path: path.Clean
\* drops every empty segment and every "." segment and lets a ".." segment
\* take the segment before it away (at the root it is dropped); the slash at
\* the end of the path is put back unless the clean path is the root.
cleanPath(path) ==
    LET RECURSIVE Clean(_, _)
        Clean(done, rest) ==
            IF rest = << >> THEN done
            ELSE IF Head(rest) \in {"", "."} THEN Clean(done, Tail(rest))
            ELSE IF Head(rest) = ".."
                 THEN Clean(IF done = << >> THEN done
                            ELSE SubSeq(done, 1, Len(done) - 1), Tail(rest))
            ELSE Clean(Append(done, Head(rest)), Tail(rest))
    IN IF path # << >> /\ path[Len(path)] = "" /\ Clean(<< >>, path) # << >>
       THEN Append(Clean(<< >>, path), "")
       ELSE Clean(<< >>, path)

\* The patterns of CreateServerMux: "POST /kv" matches the path /kv alone,
\* "GET /kv/{key}" and "DELETE /kv/{key}" a path of two segments whose second
\* is not empty; a pattern of method GET matches HEAD requests too.  A
\* request whose path is not its clean path is answered by the mux with a
\* redirect (301) to the clean path, unless its method is CONNECT: the path
\* of a CONNECT request is not cleaned and is matched as it is written.  A
\* path that matches a pattern under another method only is answered 405 by
\* the mux, a path that matches no pattern 404.
Route(r) ==
    IF r.method # "CONNECT" /\ cleanPath(r.path) # r.path
    THEN [status |-> StatusMovedPermanently, handler |-> "none"]
    ELSE IF r.path = <<"kv">>
    THEN IF r.method = "POST"
         THEN [status |-> 0, handler |-> "handlePost"]
         ELSE [status |-> StatusMethodNotAllowed, handler |-> "none"]
    ELSE IF Len(r.path) = 2 /\ r.path[1] = "kv" /\ r.path[2] # ""
         THEN CASE r.method \in {"GET", "HEAD"} ->
                     [status |-> 0, handler |-> "handleGet"]
                [] r.method = "DELETE" -> [status |-> 0, handler |-> "handleDelete"]
                [] OTHER -> [status |-> StatusMethodNotAllowed, handler |-> "none"]
         ELSE [status |-> StatusNotFound, handler |-> "none"]

\* The mux answers a request that has no handler.
MuxError(t, r) ==
    /\ CanCall(t)
    /\ ~Serving(t)
    /\ budget' = budget - 1
    /\ proc' = [proc EXCEPT !.resp = [t |-> t, method |-> r.method,
                                      status |-> Route(r).status,
                                      path |-> r.path]]
    /\ UNCHANGED <<clock, shards, mu, shardDimensions, files, pc, local, ret,
                   lastPut, window, phase, foundEmpty>>

\* The server takes request r while its listener is open: the mux calls the
\* handler of the pattern that matches, with the segment {key}, unescaped, as
\* PathValue.
ServeHTTP(t, r) ==
    /\ proc.http = "serving"
    /\ IF Route(r).handler = "handlePost" THEN HandlePost(t, r.body)
       ELSE IF Route(r).handler = "handleGet"
            THEN HandleGet(t, r.method, PathUnescape(r.path[2]))
       ELSE IF Route(r).handler = "handleDelete"
            THEN HandleDelete(t, PathUnescape(r.path[2]))
       ELSE MuxError(t, r)

\* One client sends requests one after the other while time passes.
NextHttp ==
    \/ AllIdle /\ Tick
    \/ \E r \in Requests : ServeHTTP("c1", r)
    \/ HandlerWrite("c1")
    \/ PutLock("c1") \/ PutStore("c1")
    \/ GetRLock("c1") \/ GetRead("c1")
    \/ DeleteLock("c1") \/ DeleteRemove("c1")

SpecHttp == InitWith(MaxRequests) /\ [][NextHttp]_vars

\* ToDisk while a request handler and the cleanup worker change the shard it
\* saves: the keys of the handler's requests are all in one shard.
RaceKeys == {"hello", "bye"}

NextFlushRace ==
    \/ Tick
    \/ \E key \in RaceKeys, ttl \in ConcTtls : PutCall("c1", key, IntVal(1), ttl)
    \/ \E key \in RaceKeys : DeleteCall("c1", key)
    \/ CleanupCall(Cleaner)
    \/ ToDiskCall(Flusher)
    \/ PutLock("c1") \/ PutStore("c1")
    \/ DeleteLock("c1") \/ DeleteRemove("c1")
    \/ EvictBegin(Cleaner) \/ EvictLock(Cleaner) \/ EvictSweep(Cleaner)
    \/ GetLengthRLock(Flusher) \/ GetLengthRead(Flusher)
    \/ ToDiskCompare(Flusher) \/ FlushRLock(Flusher)
    \/ FlushWrite(Flusher, TRUE)

SpecFlushRace == InitWith(MaxFlushRaceCalls) /\ [][NextFlushRace]_vars

\* Shards that become empty again: one caller Puts and Deletes, ToDisk runs
\* between the calls with writes that may fail, and the process may be
\* started again on the same directory.
NextEmpty ==
    \/ AllIdle /\ \E key \in ConcKeys : PutCall("c1", key, IntVal(1), Nil)
    \/ AllIdle /\ \E key \in ConcKeys : DeleteCall("c1", key)
    \/ AllIdle /\ ToDiskCall(Flusher)
    \/ PutLock("c1") \/ PutStore("c1")
    \/ DeleteLock("c1") \/ DeleteRemove("c1")
    \/ GetLengthRLock(Flusher) \/ GetLengthRead(Flusher)
    \/ ToDiskCompare(Flusher) \/ FlushRLock(Flusher)
    \/ \E writeOk \in BOOLEAN : FlushWrite(Flusher, writeOk)
    \/ \E load \in BOOLEAN : Restart(load)

SpecEmpty == InitWith(MaxEmptyCalls) /\ [][NextEmpty]_vars

\* Changes that keep a shard's length: one caller Puts two values under the
\* keys of one shard and Deletes them, and ToDisk runs between the calls.
NextLossy ==
    \/ AllIdle /\ \E key \in RaceKeys, value \in Values :
                     PutCall("c1", key, value, Nil)
    \/ AllIdle /\ \E key \in RaceKeys : DeleteCall("c1", key)
    \/ AllIdle /\ ToDiskCall(Flusher)
    \/ PutLock("c1") \/ PutStore("c1")
    \/ DeleteLock("c1") \/ DeleteRemove("c1")
    \/ GetLengthRLock(Flusher) \/ GetLengthRead(Flusher)
    \/ ToDiskCompare(Flusher) \/ FlushRLock(Flusher)
    \/ FlushWrite(Flusher, TRUE)

SpecLossy == InitWith(MaxLossyCalls) /\ [][NextLossy]_vars

\* All callers of the store at once: a request handler that Puts and
\* Deletes, one that Gets, the cleanup worker and the flush worker, on the
\* keys of both shards.  Every thread
\* that can take a step eventually takes one (the Go scheduler runs every
\* runnable goroutine; a blocked Lock or RLock is granted once the mutex is
\* free).
CleanerSteps == EvictBegin(Cleaner) \/ EvictLock(Cleaner) \/ EvictSweep(Cleaner)
FlusherSteps ==
    \/ GetLengthRLock(Flusher) \/ GetLengthRead(Flusher)
    \/ ToDiskCompare(Flusher) \/ FlushRLock(Flusher)
    \/ FlushWrite(Flusher, TRUE)

NextLocks ==
    \/ \E key \in ConcKeys : PutCall("c1", key, ValueOf("c1"), Nil)
    \/ \E key \in ConcKeys : GetCall("c2", key)
    \/ \E key \in ConcKeys : DeleteCall("c1", key)
    \/ CleanupCall(Cleaner)
    \/ ToDiskCall(Flusher)
    \/ \E t \in Clients : ClientSteps(t)
    \/ CleanerSteps
    \/ FlusherSteps

SpecLocks ==
    /\ InitWith(MaxLockCalls)
    /\ [][NextLocks]_vars
    /\ \A t \in Clients : WF_vars(ClientSteps(t))
    /\ WF_vars(CleanerSteps)
    /\ WF_vars(FlusherSteps)

\* The flush worker on a directory whose writes may fail, beside a request
\* handler that Puts, Gets and Deletes; main may receive a SIGINT and cancel
\* the workers.  The ticker goes on sending ticks and a worker whose select
\* can take a tick eventually takes it or returns.
HandlerCalls ==
    \/ PutCall("c1", "hello", IntVal(1), Nil)
    \/ GetCall("c1", "hello")
    \/ DeleteCall("c1", "hello")

FlushWorkerSteps ==
    \/ GetLengthRLock(Flusher) \/ GetLengthRead(Flusher)
    \/ ToDiskCompare(Flusher) \/ FlushRLock(Flusher)
    \/ \E writeOk \in BOOLEAN : FlushWrite(Flusher, writeOk)

NextFlushWorker ==
    \/ proc.http = "serving" /\ HandlerCalls
    \/ proc.main # "stopped" /\ ClientSteps("c1")
    \/ TickerFire(Flusher)
    \/ WorkerTick(Flusher)
    \/ \E w \in Workers : WorkerDone(w)
    \/ \E w \in Workers : WorkerCtxDone(w)
    \/ Sigint
    \/ MainSteps
    \/ FlushWorkerSteps

SpecFlushWorker ==
    /\ InitWith(MaxFlushWorkerCalls)
    /\ [][NextFlushWorker]_vars
    /\ WF_vars(proc.main # "stopped" /\ ClientSteps("c1"))
    /\ WF_vars(FlushWorkerSteps)
    /\ WF_vars(TickerFire(Flusher))
    /\ WF_vars(WorkerTick(Flusher))

\* Overwrites: two request handlers Put (with and without TTL) and Get one
\* key while time passes and the cleanup worker runs.
NextOverwrite ==
    \/ Tick
    \/ \E t \in Clients, ttl \in ConcTtls : PutCall(t, "hello", ValueOf(t), ttl)
    \/ \E t \in Clients : GetCall(t, "hello")
    \/ CleanupCall(Cleaner)
    \/ \E t \in Clients : PutLock(t) \/ PutStore(t) \/ GetRLock(t) \/ GetRead(t)
    \/ CleanerSteps

SpecOverwrite == InitWith(MaxOverwriteCalls) /\ [][NextOverwrite]_vars

\* The cleanup worker on its ticker, never short of ticks, beside a request
\* handler that Puts (with and without TTL), Gets and Deletes one key, calls
\* of ToDisk, the passing of time and one SIGINT, which the worker's select
\* may receive.  A request and a ToDisk begin at any time, beside each other
\* and beside a Cleanup in flight; MaxEvictCalls of them begin in one run.
\* The ticker goes on sending ticks; the worker at its select with a tick
\* waiting eventually takes it unless it returns; every routine that holds
\* or can take a lock eventually moves on, and the worker's Lock is granted
\* although readers come and go (a blocked Lock of sync.RWMutex keeps new
\* readers out).
EvictKeys == {"hello"}
EvictCalls ==
    \/ \E key \in EvictKeys, ttl \in ConcTtls : PutCall("c1", key, IntVal(1), ttl)
    \/ \E key \in EvictKeys : GetCall("c1", key)
    \/ \E key \in EvictKeys : DeleteCall("c1", key)

NextEvict ==
    \/ Tick
    \/ proc.http = "serving" /\ EvictCalls
    \/ ClientSteps("c1")
    \/ AtSelect(Flusher) /\ ToDiskCall(Flusher)
    \/ TickerSend(Cleaner)
    \/ WorkerTake(Cleaner) /\ UNCHANGED budget
    \/ WorkerDone(Cleaner)
    \/ Sigint
    \/ CleanerSteps
    \/ FlusherSteps

SpecEvict ==
    /\ InitWith(MaxEvictCalls)
    /\ [][NextEvict]_vars
    /\ WF_vars(ClientSteps("c1"))
    /\ WF_vars(FlusherSteps)
    /\ WF_vars(TickerSend(Cleaner))
    /\ WF_vars(WorkerTake(Cleaner) /\ UNCHANGED budget)
    /\ SF_vars(CleanerSteps)

\* The flush worker on its ticker, never short of ticks, on a directory whose
\* writes succeed, beside a request handler that Puts and Deletes a key of
\* each shard (the key of shard 0 with one value or another, so that a Put
\* over a Put changes the entry), and one SIGINT, which the worker's select
\* may receive.  The
\* ticker goes on sending ticks; the worker at its select with a tick waiting
\* eventually takes it unless it returns; every routine that can take a step
\* eventually takes one.
PersistCalls ==
    \/ \E value \in Values : PutCall("c1", "hello", value, Nil)
    \/ PutCall("c1", "k", IntVal(1), Nil)
    \/ \E key \in ConcKeys : DeleteCall("c1", key)

NextPersist ==
    \/ proc.http = "serving" /\ PersistCalls
    \/ PutLock("c1") \/ PutStore("c1")
    \/ DeleteLock("c1") \/ DeleteRemove("c1")
    \/ TickerSend(Flusher)
    \/ WorkerTake(Flusher) /\ UNCHANGED budget
    \/ WorkerDone(Flusher)
    \/ Sigint
    \/ FlusherSteps

SpecPersist ==
    /\ InitWith(MaxPersistCalls)
    /\ [][NextPersist]_vars
    /\ WF_vars(PutLock("c1") \/ PutStore("c1") \/ DeleteLock("c1") \/ DeleteRemove("c1"))
    /\ WF_vars(FlusherSteps)
    /\ WF_vars(TickerSend(Flusher))
    /\ WF_vars(WorkerTake(Flusher) /\ UNCHANGED budget)

\* ================================================================ properties
\* The shard of a key, from the checksum and the number of shards.
ExpectedShard(key) == ChecksumIEEE(key) % NumShards

\* The result of a Get that returns value v and no error.
Found(v) == [val |-> v, err |-> NoError]

\* The TTL (seconds) of the Put recorded in p is positive and, at time now,
\* more than that many seconds have passed since the Put took effect.
Elapsed(p, now) ==
    /\ p.ttl # Nil
    /\ p.ttl[1] > 0
    /\ now - p.at > p.ttl[1] * 1000

\* ------------------------------------------------------------------- C1
\* C1: in any interleaving of Put, Get, Delete, Cleanup and ToDisk, a Get(k)
\* that reads the map while the last Put or Delete of k that took effect is a
\* Put(k, v, no TTL) returns v and no error.
C1_PutGetNoTtl ==
    [][\A t \in Clients :
          (GetRead(t) /\ lastPut[local[t].key].op = "Put"
                      /\ lastPut[local[t].key].ttl = Nil)
          => ret'.res = Found(lastPut[local[t].key].value)]_vars

\* A Get returned the value of a Put without TTL that took effect two seconds
\* before the Get began.
C1_Witness ==
    /\ ret.op = "Get"
    /\ lastPut[ret.key].op = "Put"
    /\ lastPut[ret.key].ttl = Nil
    /\ ret.res = Found(lastPut[ret.key].value)
    /\ ret.currentTime - lastPut[ret.key].at > TickMs

\* ------------------------------------------------------------------- C2
\* The effect of a Put(k, v, _) on the maps: k is in shard FindShard(k) with
\* value v and in no other shard, and that shard's length has grown by one if
\* k was absent and is unchanged if k was present.
PutKeepsOneEntry(t) ==
    LET k == local[t].key
        i == ExpectedShard(k)
    IN /\ k \in DOMAIN shards'[i]
       /\ shards'[i][k].Value = local[t].value
       /\ \A j \in DOMAIN shards' : j # i => k \notin DOMAIN shards'[j]
       /\ Cardinality(DOMAIN shards'[i]) =
             Cardinality(DOMAIN shards[i]) + (IF k \in DOMAIN shards[i] THEN 0 ELSE 1)

\* C2 (as amended): after Puts of k with values v_1..v_n and no Delete since,
\* Get(k) returns v_n unless the last Put carried a positive TTL that has
\* elapsed when the Get reads (it then returns ExpiredEntry, or KeyNotFound
\* once Cleanup has evicted the entry); every Put leaves exactly one entry for
\* k, in shard FindShard(k), growing the shard by one only if k was absent.
C2_LastWriterWins ==
    [][\A t \in Clients :
          /\ (GetRead(t) /\ lastPut[local[t].key].op = "Put")
             => LET p == lastPut[local[t].key]
                IN \/ ret'.res = Found(p.value)
                   \/ /\ Elapsed(p, clock)
                      /\ ret'.res.err.type \in {"ExpiredEntry", "KeyNotFound"}
          /\ PutStore(t) => PutKeepsOneEntry(t)]_vars

\* C2 as stated: Get(k) returns v_n after every sequence of Puts of k.
C2_AsStated ==
    [][\A t \in Clients :
          /\ (GetRead(t) /\ lastPut[local[t].key].op = "Put")
             => ret'.res = Found(lastPut[local[t].key].value)
          /\ PutStore(t) => PutKeepsOneEntry(t)]_vars

\* A Get returned the value of a Put that overwrote a Put of its key, and the
\* key's shard holds one entry.
C2_Witness ==
    /\ ret.op = "Get"
    /\ lastPut[ret.key].op = "Put"
    /\ lastPut[ret.key].n = 2
    /\ ret.res = Found(lastPut[ret.key].value)
    /\ Cardinality(DOMAIN shards[ExpectedShard(ret.key)]) = 1

\* ------------------------------------------------------------------- C3
\* What C3 requires of the Get that thread t is about to complete, the last
\* Put of its key having supplied a TTL and its entry being in the shard:
\* ExpiredEntry with ttl_ms and the elapsed milliseconds if expires(t, elapsed),
\* the value otherwise.
TtlRead(t, expires(_, _)) ==
    LET k == local[t].key
        p == lastPut[k]
        elapsed == local[t].currentTime - p.at
    IN (/\ GetRead(t)
        /\ p.op = "Put"
        /\ p.ttl # Nil
        /\ k \in DOMAIN shards[ExpectedShard(k)])
       => ret'.res =
             IF expires(p.ttl[1], elapsed)
             THEN [val |-> NilVal,
                   err |-> NewExpiredEntryError(k, p.ttl[1] * 1000, elapsed)]
             ELSE Found(p.value)

ExpiresIfPositive(ttl, elapsed) == ttl > 0 /\ elapsed > ttl * 1000
ExpiresAlways(ttl, elapsed) == elapsed > ttl * 1000

\* C3 (as amended): after Put(k, v, t) with a TTL of t > 0 seconds, Get(k)
\* returns ExpiredEntry, carrying ttl_ms = t*1000 and the elapsed
\* milliseconds, when now_ms - timestamp_ms > t*1000, and v otherwise; with a
\* supplied TTL of t <= 0 the entry never expires and Get(k) returns v.
C3_TtlExpiryOnRead == [][TtlRead("c1", ExpiresIfPositive)]_vars

\* C3 as stated: for any supplied t, ExpiredEntry when the elapsed time
\* exceeds t seconds.
C3_AsStated == [][TtlRead("c1", ExpiresAlways)]_vars

\* A Get, two seconds after a Put with a TTL of one second, returned
\* ExpiredEntry with ttl_ms = 1000 and elapsed = 2000.
C3_Witness ==
    /\ ret.op = "Get"
    /\ lastPut[ret.key].op = "Put"
    /\ lastPut[ret.key].ttl = <<1>>
    /\ ret.res.err = NewExpiredEntryError(ret.key, 1000, 2 * TickMs)

\* ------------------------------------------------------------------- C4
\* Thread t takes a step of Get: the call, the RLock or the read and return.
GetStep(t) ==
    \/ pc[t] = "idle" /\ pc'[t] = "Get_rlock"
    \/ GetRLock(t)
    \/ GetRead(t)

\* A step that completes the write of a Put, a Delete or an Evict.
WriterStep ==
    \E t \in Threads :
        pc[t] \in {"Put_store", "Delete_remove", "Evict_sweep"} /\ pc'[t] # pc[t]

\* C4: no step of Get changes the contents of any shard, shardDimensions or
\* the snapshot files, whatever the Get returns; an entry that has expired
\* stays in its shard, unchanged, until a Put, a Delete or an Evict writes.
C4_GetChangesNothing ==
    [][/\ \A t \in Clients :
             GetStep(t) => UNCHANGED <<shards, shardDimensions, files>>
       /\ \A i \in DOMAIN shards : \A k \in DOMAIN shards[i] :
             (/\ shards[i][k].Ttl > 0
              /\ clock - shards[i][k].Timestamp > shards[i][k].Ttl
              /\ ~WriterStep)
             => (k \in DOMAIN shards'[i] /\ shards'[i][k] = shards[i][k])]_vars

\* A Get returned ExpiredEntry and the entry it reported is still in its shard.
C4_Witness ==
    /\ ret.op = "Get"
    /\ ret.res.err.type = "ExpiredEntry"
    /\ ret.key \in DOMAIN shards[ExpectedShard(ret.key)]
    /\ shards[ExpectedShard(ret.key)][ret.key].Ttl = ret.res.err.ttl

\* ------------------------------------------------------------------- C5
\* Entry e has a positive TTL and is older than it at time now.
Overdue(e, now) == e.Ttl > 0 /\ now - e.Timestamp > e.Ttl

\* C5 (as amended): Cleanup returns after Evict has run on every shard in
\* index order, and when Evict returns on shard i the shard contains no entry
\* with ttl_ms > 0 whose age at the time Evict sampled the clock exceeded
\* ttl_ms; an entry that expires after that sample stays until a later
\* Cleanup.
C5_NoOverdueAtSample ==
    [][EvictSweep(Cleaner)
       => /\ \A k \in DOMAIN shards'[local[Cleaner].i] :
                ~Overdue(shards'[local[Cleaner].i][k], local[Cleaner].currentTime)
          /\ pc'[Cleaner] = "idle" <=> local[Cleaner].i = NumShards - 1
          /\ pc'[Cleaner] # "idle" => local'[Cleaner].i = local[Cleaner].i + 1]_vars

\* C5 as stated: when Cleanup returns, no shard contains an entry with
\* ttl_ms > 0 whose age, at that time, exceeds ttl_ms.
C5_AsStated ==
    [][(EvictSweep(Cleaner) /\ pc'[Cleaner] = "idle")
       => \A i \in DOMAIN shards' : \A k \in DOMAIN shards'[i] :
             ~Overdue(shards'[i][k], clock')]_vars

\* Cleanup returned and has evicted the entry of a key whose last write was a
\* Put.
C5_Witness ==
    /\ ret.op = "Cleanup"
    /\ \E k \in Keys :
          /\ lastPut[k].op = "Put"
          /\ k \notin DOMAIN shards[ExpectedShard(k)]

\* ------------------------------------------------------------------- C6
\* C6: Evict removes an entry only if its ttl_ms > 0 and its age when it is
\* removed exceeds ttl_ms; every other entry of the shard, and every other
\* shard, is left as it was - also an entry written by a Put between Evict's
\* sample of the clock and its Lock.
C6_EvictSelective ==
    [][EvictSweep(Cleaner)
       => LET i == local[Cleaner].i
          IN /\ \A k \in DOMAIN shards[i] :
                   k \notin DOMAIN shards'[i] => Overdue(shards[i][k], clock)
             /\ \A k \in DOMAIN shards'[i] :
                   k \in DOMAIN shards[i] /\ shards'[i][k] = shards[i][k]
             /\ \A j \in DOMAIN shards : j # i => shards'[j] = shards[j]]_vars

\* Evict returned and left in its shard an entry with a TTL that a Put wrote
\* after Evict had sampled the clock.
C6_Witness ==
    /\ ret.op \in {"Evict", "Cleanup"}
    /\ \E k \in DOMAIN shards[ret.i] :
          /\ shards[ret.i][k].Ttl > 0
          /\ shards[ret.i][k].Timestamp > ret.currentTime

\* ------------------------------------------------------------------- C7
\* Values compared as JSON values: two numbers are the same value when they
\* are numerically equal, whatever their Go type.
SameJsonValue(v, w) ==
    IF v.type \in {"int", "float64"} /\ w.type \in {"int", "float64"}
    THEN v.n = w.n
    ELSE v = w

\* C7: a store built by NewKVStore and changed by Puts only (no TTL) is saved
\* by ToDisk, which returns nil; NewKVStoreFromDisk with the same number of
\* shards and directory then succeeds, and for every key that was Put, Get on
\* the loaded store returns the same value, compared as a JSON value, as Get
\* on the saved store.
C7_SnapshotRoundTrip ==
    [][(Restart(TRUE) /\ phase = "saved")
       => /\ ret'.err = NoError
          /\ \A k \in Keys :
                lastPut[k].op = "Put"
                => LET before == GetResult(shards[ExpectedShard(k)], k, clock)
                       after == GetResult(shards'[ExpectedShard(k)], k, clock)
                   IN /\ before = Found(lastPut[k].value)
                      /\ after.err = NoError
                      /\ SameJsonValue(after.val, before.val)]_vars

\* A store with entries in both shards was loaded from the files of a store
\* that ToDisk had saved, and holds the int 1 of a Put as the float64 1.
C7_Witness ==
    /\ ret.op = "Start"
    /\ ret.load
    /\ ret.from = "saved"
    /\ ret.err = NoError
    /\ HasStore
    /\ \A i \in DOMAIN shards : DOMAIN shards[i] # {}
    /\ \E i \in DOMAIN shards : \E k \in DOMAIN shards[i] :
          shards[i][k].Value = Float64Val(1)

\* ------------------------------------------------------------------- C8
\* The file is not what Flush wrote: a byte of its body differs, or its
\* digest line is cut short or missing.
Damaged(file) ==
    /\ file.exists
    /\ \/ Len(file.lines) # 2
       \/ file.lines[1].flip # "none"
       \/ file.lines[Len(file.lines)].n # 32

\* C8: when the file of some shard is damaged, NewKVStoreFromDisk returns no
\* store and the UnloadableShard error of the first damaged shard; it returns
\* a store only when no file is damaged, that is when in every file the digest
\* of the body equals the stored digest.
C8_IntegrityDetection ==
    [][Restart(TRUE)
       => LET damaged == {i \in DOMAIN files : Damaged(files[i])}
          IN IF damaged # {}
             THEN /\ ret'.err = NewUnloadableShardError(
                                   CHOOSE i \in damaged : \A j \in damaged : i <= j)
                  /\ DOMAIN shards' = {}
             ELSE /\ ret'.err = NoError
                  /\ DOMAIN shards' = DOMAIN files]_vars

\* The load failed with UnloadableShard for shard 1, whose body had a byte
\* changed that left it well-formed JSON; there is no store.
C8_Witness ==
    /\ ret.op = "Start"
    /\ ret.err = NewUnloadableShardError(1)
    /\ ~HasStore
    /\ files[1].exists
    /\ Len(files[1].lines) = 2
    /\ files[1].lines[1].flip = "digit"
    /\ ~Damaged(files[0])

\* ------------------------------------------------------------------- C9
\* Thread t calls Put or Delete; thread t takes a later step of the call.
WriteCall(t) == pc[t] = "idle" /\ pc'[t] \in {"Put_lock", "Delete_lock"}
WriteStep(t) ==
    PutLock(t) \/ PutStore(t) \/ DeleteLock(t) \/ DeleteRemove(t)

\* C9: a Put or Delete of key k changes the map of shard FindShard(k) only:
\* every other shard has the same entries, hence the same length, after each
\* of its steps.
C9_NoCrossShardLeakage ==
    [][\A t \in Clients :
          /\ WriteStep(t)
             => \A j \in DOMAIN shards :
                   j # ExpectedShard(local[t].key) => shards'[j] = shards[j]
          /\ WriteCall(t) => shards' = shards]_vars

\* A Delete has emptied the shard of its key and the other shard still holds
\* an entry.
C9_Witness ==
    /\ ret.op = "Delete"
    /\ lastPut[ret.key].op = "Delete"
    /\ DOMAIN shards[ExpectedShard(ret.key)] = {}
    /\ \E j \in DOMAIN shards : DOMAIN shards[j] # {}

\* ------------------------------------------------------------------ C10
\* No thread is at a read or write of a shard's map while another thread is at
\* a write of it: a writer holds the lock alone, and a thread at an access of
\* the map holds the lock.
MutualExclusion ==
    /\ \A i \in DOMAIN mu :
          /\ Cardinality(mu[i].w) <= 1
          /\ mu[i].w # {} => mu[i].r = {}
    /\ \A t \in Clients :
          /\ pc[t] \in {"Put_store", "Delete_remove"}
             => mu[local[t].shardIdx].w = {t}
          /\ pc[t] = "Get_read" => t \in mu[local[t].shardIdx].r

\* What a Get returns for an entry without TTL, or for no entry.
ResultOf(e, key) ==
    IF e = NoEntry
    THEN [val |-> NilVal, err |-> NewKeyNotFoundError(key)]
    ELSE Found(e.Value)

\* C10: with threads running Put, Get and Delete concurrently on keys of the
\* same and of different shards, map accesses exclude writers, every Get
\* returns the result for an entry its key had between the Get's call and its
\* return (the last write completed before it, or a write concurrent with
\* it), and every call returns.
C10_RaceSafety ==
    /\ []MutualExclusion
    /\ [][\A t \in Clients :
             GetRead(t)
             => ret'.res \in {ResultOf(e, local[t].key) : e \in window[t]}]_vars
    /\ \A t \in Clients : (pc[t] # "idle") ~> (pc[t] = "idle")

\* A Get whose key had no entry when it was called returned the value of a
\* Put that ran concurrently with it.
C10_Witness ==
    /\ ret.op = "Get"
    /\ NoEntry \in ret.seen
    /\ Cardinality(ret.seen) = 2
    /\ ret.res.err = NoError
    /\ lastPut[ret.key].op = "Put"
    /\ ret.res.val = lastPut[ret.key].value

\* ------------------------------------------------------------------ C11
\* Every key of every shard is in the shard crc32(k) mod N, N the number of
\* shards of the store (a map holds a key once, so the key is in no other
\* shard).
KeysInTheirShards ==
    \A i \in DOMAIN shards : \A k \in DOMAIN shards[i] :
        i = ChecksumIEEE(k) % Cardinality(DOMAIN shards)

\* Every key of every snapshot file shard-i is one that a store of N shards
\* keeps in shard i: the files were written by stores of N shards.
FilesOfSameN ==
    \A i \in DOMAIN files :
        files[i].exists
        => \A k \in DOMAIN files[i].lines[1].obj :
              i = ChecksumIEEE(k) % Cardinality(DOMAIN shards)

\* The step leaves the process with a store of as many shards as before.
SameN == Cardinality(DOMAIN shards') = Cardinality(DOMAIN shards)

\* C11 (as amended): in a store built by NewKVStore(N) or by
\* NewKVStoreFromDisk(N, dir) from files written by stores of the same N, a
\* key is in at most one shard, the shard crc32(k) mod N, after any sequence
\* of Put, Delete, Cleanup, ToDisk and restart with the same N.
C11_KeyInItsShard ==
    /\ KeysInTheirShards /\ FilesOfSameN
    /\ [][(KeysInTheirShards /\ FilesOfSameN /\ SameN)
          => (KeysInTheirShards' /\ FilesOfSameN')]_vars

\* C11 as stated: also after a reload of files written by a store with a
\* different N.
C11_AsStated == KeysInTheirShards

\* A store of N shards loaded from files written by a store of N shards holds
\* keys in two shards, each in its own.
C11_Witness ==
    /\ ret.op = "Start"
    /\ ret.load
    /\ ret.err = NoError
    /\ Cardinality(DOMAIN shards) = NumShards
    /\ \A i \in DOMAIN shards : DOMAIN shards[i] # {}
    /\ KeysInTheirShards
    /\ FilesOfSameN

\* ------------------------------------------------------------------ C12
\* The flush worker's thread takes a step of ToDisk after the call.
ToDiskStep ==
    pc[Flusher] # "idle" /\ (pc'[Flusher] # pc[Flusher] \/ local'[Flusher] # local[Flusher])

\* C12: when ToDisk is called after a ToDisk that returned nil, no Put, Delete
\* or Cleanup having returned in between (the calls follow one another), no
\* step of the second call changes a snapshot file: the length of every shard
\* equals shardDimensions[i], no shard goes on to Flush, and the call returns
\* nil.
C12_SecondToDiskWritesNothing ==
    [][(ToDiskStep /\ ret.op = "ToDisk" /\ ret.err = NoError)
       => /\ files' = files
          /\ shardDimensions' = shardDimensions
          /\ pc'[Flusher] \in {"getLength_rlock", "getLength_read",
                               "ToDisk_compare", "idle"}
          /\ ret' = ret]_vars

\* A second ToDisk, called right after the first had saved a store with
\* entries, has returned nil.
C12_Witness ==
    /\ phase = "resaved"
    /\ ret.op = "ToDisk"
    /\ ret.err = NoError
    /\ \E i \in DOMAIN files : files[i].exists
    /\ \E i \in DOMAIN shards : DOMAIN shards[i] # {}

\* ------------------------------------------------------------------ C13
WorkerReturns(w) == proc.w[w] = "running" /\ proc'.w[w] = "stopped"
WorkerCalls(w) == pc[w] = "idle" /\ pc'[w] # "idle"

\* C13 (as the code has it): once the context is cancelled each running
\* worker eventually returns; a worker returns only at its select, with no
\* ToDisk or Cleanup of its own in flight, and only because the context is
\* cancelled or it took a value from done; a worker that has returned calls
\* ToDisk or Cleanup no more.  A worker whose ticker has a tick waiting when
\* the context is cancelled may still begin one more ToDisk or Cleanup.
C13_WorkersTerminate ==
    /\ \A w \in Workers :
          (proc.cancelled /\ proc.w[w] = "running") ~> (proc.w[w] = "stopped")
    /\ [][\A w \in Workers :
            /\ WorkerReturns(w)
                 => /\ pc[w] = "idle" /\ pc'[w] = "idle"
                    /\ proc.cancelled \/ proc'.done < proc.done
            /\ proc.w[w] = "stopped"
                 => proc'.w[w] = "stopped" /\ ~WorkerCalls(w)]_vars

\* C13 as stated: after cancellation a worker at most finishes the action in
\* flight, so no worker begins a ToDisk or Cleanup once the context is cancelled.
C13_AsStated ==
    [][\A w \in Workers : WorkerCalls(w) => ~proc.cancelled]_vars

\* Both workers have returned after the context was cancelled, the flusher
\* having written a snapshot before.
C13_Witness ==
    /\ proc.cancelled
    /\ \A w \in Workers : proc.w[w] = "stopped"
    /\ \E i \in DOMAIN files : files[i].exists

\* ------------------------------------------------------------------ C14
\* C14: after a SIGINT is delivered, eventually the listener is shut down,
\* the context is cancelled, both workers have returned and the application
\* has stopped, whichever receiver takes the value from done.
C14_OrderlyShutdown ==
    (proc.sigints > 0)
        ~> /\ proc.http = "closed"
           /\ proc.cancelled
           /\ \A w \in Workers : proc.w[w] = "stopped"
           /\ proc.main = "stopped"

\* ------------------------------------------------------------------ C15
\* A body that is not one well-formed JSON value.
InvalidJson(body) == body.first = "none" \/ body.rest
HasUnknownField(body) ==
    \E n \in 1..Len(body.members) : FieldOf(body.members[n][1]) = "none"
Malformed(body) == InvalidJson(body) \/ HasUnknownField(body)

\* C15: handlePost answers a malformed body (invalid JSON or a body with an
\* unknown field) with 400 and calls no Put: the handler begins no store
\* call, and no shard changes.
C15_MalformedPostRejected ==
    [][\A body \in PostBodies :
          (HandlePost("c1", body) /\ Malformed(body))
          => /\ proc'.resp = [t |-> "c1", method |-> "POST",
                               status |-> StatusBadRequest, body |-> body]
             /\ proc'.req = proc.req
             /\ pc' = pc
             /\ shards' = shards]_vars

\* ------------------------------------------------------------------ C16
Present(key) == \E i \in DOMAIN shards : key \in DOMAIN shards[i]

\* The parts of C16 that are about the store, and the answer of the DELETE
\* handler once it is called: a Delete returns without an error whether or
\* not its key is present, and the handler then answers 204; a Delete of an
\* absent key changes no shard; a Get(k) that reads the map while the last
\* Put or Delete of k that took effect is a Delete returns KeyNotFound.
DeleteNeverFails ==
    /\ DeleteRemove("c1")
         => /\ ret' = [t |-> "c1", op |-> "Delete", key |-> local["c1"].key]
            /\ ~Present(local["c1"].key) => shards' = shards
            /\ ~(\E i \in DOMAIN shards' : local["c1"].key \in DOMAIN shards'[i])
    /\ (HandlerWrite("c1") /\ proc.req["c1"].method = "DELETE")
         => /\ proc'.resp.status = StatusNoContent
            /\ proc'.resp.key = ret.key
            /\ ret.op = "Delete"
    /\ (GetRead("c1") /\ lastPut[local["c1"].key].op = "Delete")
         => ret'.res = [val |-> NilVal,
                        err |-> NewKeyNotFoundError(local["c1"].key)]

\* The DELETE requests sent whose path has a non-empty segment after /kv/.
DeleteRequests ==
    {r \in Requests : /\ r.method = "DELETE" /\ Len(r.path) >= 2
                      /\ r.path[1] = "kv" /\ r.path # <<"kv", "">>}

\* The server took the request DELETE /kv/seg and called Delete of the key
\* that seg encodes, after which the handler answers.
DeleteCalled(seg) ==
    /\ pc'["c1"] = "Delete_lock"
    /\ local'["c1"].key = PathUnescape(seg)
    /\ proc'.req["c1"].method = "DELETE"

\* C16, amended: Delete never fails, a Delete of an absent key changes no
\* shard, and Get after Delete is KeyNotFound until the next Put, as stated;
\* DELETE /kv/{key} with a non-empty key is answered 204, whether or not the
\* key is present, when the path of the request is its clean path (the key
\* segment is neither "." nor ".." and no segment is empty); any other path
\* is answered with a 301 redirect to the clean path, and then no Delete is
\* called and no shard changes.
C16_DeleteTotalIdempotent ==
    [][/\ DeleteNeverFails
       /\ \A r \in DeleteRequests :
             ServeHTTP("c1", r)
             => IF cleanPath(r.path) = r.path
                THEN DeleteCalled(r.path[2])
                ELSE /\ proc'.resp = [t |-> "c1", method |-> "DELETE",
                                      status |-> StatusMovedPermanently,
                                      path |-> r.path]
                     /\ pc' = pc
                     /\ proc'.req = proc.req
                     /\ shards' = shards]_vars

\* C16 as stated: every DELETE /kv/{key} with a non-empty key segment calls
\* Delete and is answered 204.
C16_AsStated ==
    [][/\ DeleteNeverFails
       /\ \A seg \in PathSegments :
             (ServeHTTP("c1", Request("DELETE", <<"kv", seg>>, NotJson))
              /\ seg # "")
             => DeleteCalled(seg)]_vars

\* A DELETE of a key that no shard holds was answered 204 while another key
\* is stored.
C16_Witness ==
    /\ proc.resp.method = "DELETE"
    /\ proc.resp.status = StatusNoContent
    /\ ~proc.resp.present
    /\ \E i \in DOMAIN shards : DOMAIN shards[i] # {}

\* ------------------------------------------------------------------ C17
InToDisk == pc[Flusher] # "idle"
OnlyShardTouched(i) ==
    /\ \A j \in DOMAIN files : j # i => files'[j] = files[j]
    /\ \A j \in DOMAIN shardDimensions :
          j # i => shardDimensions'[j] = shardDimensions[j]

\* C17: ToDisk begins at shard 0 and goes from shard i to shard i + 1 only;
\* while it is at shard i no file and no recorded length of another shard
\* changes, and it returns nil only from the last shard.  When the Flush of
\* shard i fails, ToDisk returns that error in the same step, leaving the
\* file of every other shard and every recorded length as they are (of the
\* file of shard i the failed write leaves the old file, a part of the new
\* one, or all of it): the files written for lower shards stay, no higher
\* shard is examined or written.
C17_StopsAtFirstFailure ==
    [][/\ (~InToDisk /\ InToDisk') => local'[Flusher].i = 0
       /\ (InToDisk /\ InToDisk')
            => /\ local'[Flusher].i \in {local[Flusher].i, local[Flusher].i + 1}
               /\ OnlyShardTouched(local[Flusher].i)
       /\ (InToDisk /\ ~InToDisk')
            => /\ OnlyShardTouched(local[Flusher].i)
               /\ ret'.op = "ToDisk"
               /\ ret'.err = NoError
                    => local[Flusher].i + 1 = Cardinality(DOMAIN shards)
       /\ FlushWrite(Flusher, FALSE)
            => /\ ~InToDisk'
               /\ ret' = [t |-> Flusher, op |-> "ToDisk",
                          err |-> [type |-> "WriteFile", i |-> local[Flusher].i]]
               /\ files'[local[Flusher].i]
                    \in WriteFileFailed(files[local[Flusher].i],
                                        shards[local[Flusher].i])
               /\ \A j \in DOMAIN files : j # local[Flusher].i => files'[j] = files[j]
               /\ shardDimensions' = shardDimensions]_vars

\* ToDisk returned the error of shard 1's Flush: the file of shard 0 is on
\* disk, shard 1 has entries and no file.
C17_Witness ==
    /\ ret.op = "ToDisk"
    /\ ret.err = [type |-> "WriteFile", i |-> 1]
    /\ files[0].exists
    /\ ~files[1].exists
    /\ DOMAIN shards[1] # {}

\* ------------------------------------------------------------------ C18
\* C18: when the most recent return is a ToDisk that failed at the Flush of
\* shard i, shardDimensions[i] has not been advanced to the length of shard
\* i, so the next ToDisk does not skip the shard.
C18_FailedFlushNotRecorded ==
    (ret.op = "ToDisk" /\ ret.err # NoError)
        => ~Unchanged(shardDimensions[ret.err.i],
                      Cardinality(DOMAIN shards[ret.err.i]))

\* ------------------------------------------------------------------ C19
\* The number of entries in a file that Flush wrote.
EntriesIn(file) == Cardinality(DOMAIN file.lines[1].obj)
FlusherShard == local[Flusher].i
FlusherHoldsRLock == InToDisk /\ Flusher \in mu[FlusherShard].r

\* C19 (as the code has it): the length ToDisk records for shard i is the
\* shard's length when getLength reads it, and the file it writes holds the
\* shard's entries when Flush reads them; shard i cannot change while ToDisk
\* holds its reader lock, but between getLength, the recording of the length
\* and Flush ToDisk holds no lock, and a Put, Delete or Evict of shard i may
\* take effect there.
C19_LengthAndFlushSeparate ==
    /\ [](pc[Flusher] \in {"ToDisk_compare", "Flush_rlock"}
            => Flusher \notin mu[FlusherShard].r)
    /\ [][/\ FlusherHoldsRLock => shards'[FlusherShard] = shards[FlusherShard]
          /\ GetLengthRead(Flusher)
               => /\ local'[Flusher].shardLength =
                         Cardinality(DOMAIN shards[FlusherShard])
                  /\ Flusher \notin mu'[FlusherShard].r
                  /\ shardDimensions' = shardDimensions
          /\ (ToDiskCompare(Flusher) /\ pc'[Flusher] = "Flush_rlock")
               => shardDimensions'[FlusherShard] = local[Flusher].shardLength
          /\ (FlushWrite(Flusher, TRUE) /\ DOMAIN shards[FlusherShard] # {})
               => /\ files'[FlusherShard] = FlushContent(shards[FlusherShard])
                  /\ EntriesIn(files'[FlusherShard]) =
                         Cardinality(DOMAIN shards[FlusherShard])]_vars

\* C19 as stated: the file a pass writes for shard i has as many entries as
\* the length the pass recorded in shardDimensions[i].
C19_AsStated ==
    [][(FlushWrite(Flusher, TRUE) /\ files' # files)
          => EntriesIn(files'[FlusherShard]) = shardDimensions[FlusherShard]]_vars

\* ToDisk has returned, and the file it wrote for shard 0 has more entries
\* than the length it recorded for the shard.
C19_Witness ==
    /\ ret.op = "ToDisk"
    /\ files[0].exists
    /\ EntriesIn(files[0]) > shardDimensions[0]

\* ------------------------------------------------------------------ C20
FlushOfEmpty == pc[Flusher] = "Flush_write" /\ DOMAIN shards[FlusherShard] = {}

\* C20: the Flush of an empty shard changes no file, whether shard-i exists
\* or not and whether or not the directory can be written, and ToDisk does
\* not return an error from it; no step creates the file of a shard that is
\* empty, so ToDisk creates no file for a shard that has been empty since
\* the store was constructed.
C20_EmptyFlushTouchesNothing ==
    [][/\ FlushOfEmpty
            => /\ files' = files
               /\ \/ pc'[Flusher] = "getLength_rlock"
                  \/ pc'[Flusher] = "idle" /\ ret'.op = "ToDisk"
                                           /\ ret'.err = NoError
       /\ \A i \in DOMAIN shards :
             (~files[i].exists /\ files'[i].exists) => DOMAIN shards[i] # {}]_vars

\* ToDisk returned nil after the Flush of shard 0, which is empty: its
\* recorded length is 0 again and the file written earlier still holds an entry.
C20_Witness ==
    /\ ret.op = "ToDisk"
    /\ ret.err = NoError
    /\ DOMAIN shards[0] = {}
    /\ shardDimensions[0] = 0
    /\ files[0].exists
    /\ IsIntact(files[0])
    /\ EntriesIn(files[0]) = 1
    /\ lastPut["hello"].op = "Delete"

\* ------------------------------------------------------------------ C21
\* ToDisk is about to read or compare the length of its shard, and that
\* length is the recorded one.
AtSameLength ==
    \/ /\ pc[Flusher] \in {"getLength_rlock", "getLength_read"}
       /\ Cardinality(DOMAIN shards[FlusherShard]) = shardDimensions[FlusherShard]
    \/ /\ pc[Flusher] = "ToDisk_compare"
       /\ local[Flusher].shardLength = shardDimensions[FlusherShard]

\* C21: when ToDisk comes to a shard whose length equals the recorded one, it
\* leaves the shard's file as it is and goes on to the next shard or returns
\* nil, whatever the shard holds: after an in-place Put or a Delete and a Put
\* of another key the file keeps the old contents.
C21_SameLengthSkipped ==
    [][AtSameLength
         => /\ files' = files
            /\ shardDimensions' = shardDimensions
            /\ pc'[Flusher] \in {"getLength_rlock", "getLength_read",
                               "ToDisk_compare", "idle"}
            /\ pc'[Flusher] = "idle"
                 => ret' = [t |-> Flusher, op |-> "ToDisk", err |-> NoError]]_vars

\* ToDisk returned nil while the file of shard 0, written by an earlier
\* ToDisk, holds another value under the shard's key than the shard does.
C21_Witness ==
    /\ ret.op = "ToDisk"
    /\ ret.err = NoError
    /\ files[0].exists
    /\ DOMAIN files[0].lines[1].obj = DOMAIN shards[0]
    /\ DOMAIN shards[0] # {}
    /\ files[0] # FlushContent(shards[0])
    /\ \E k \in DOMAIN shards[0] :
          files[0].lines[1].obj[k].value # JsonMarshalValue(shards[0][k].Value)

\* ------------------------------------------------------------------ C22
\* The shard locks thread t holds.
Held(t) == {i \in DOMAIN mu : t \in mu[i].w \cup mu[i].r}

\* C22: every thread holds at most one shard lock and none when its call has
\* returned; a shard has at most one writer, and none while it has readers;
\* every call of every thread returns.
C22_LockDiscipline ==
    /\ [](\A t \in Threads :
             /\ Cardinality(Held(t)) <= 1
             /\ pc[t] = "idle" => Held(t) = {})
    /\ [](\A i \in DOMAIN mu :
             /\ Cardinality(mu[i].w) <= 1
             /\ mu[i].w # {} => mu[i].r = {})
    /\ \A t \in Threads : (pc[t] # "idle") ~> (pc[t] = "idle")

\* A handler waits for the writer lock of a shard that another handler and
\* the flush worker hold as readers.
C22_Witness ==
    /\ pc["c1"] \in {"Put_lock", "Delete_lock"}
    /\ pc["c2"] = "Get_read"
    /\ mu[local["c1"].shardIdx].r = {"c2", Flusher}

\* ------------------------------------------------------------------ C23
\* The last call that returned is a ToDisk of the flush worker that failed.
ToDiskFailed == ret.op = "ToDisk" /\ ret.t = Flusher /\ ret.err # NoError

\* C23: the step in which ToDisk returns an error leaves the flush worker
\* running at its select and changes nothing of the shards, of the handlers
\* or of the process; from then on the worker calls ToDisk again on a later
\* tick unless it returns because of done or of the cancelled context (or the
\* run's calls are used up); a Get after the failure returns what the shard
\* holds for its key.
C23_WorkerSurvivesError ==
    /\ [][FlushWrite(Flusher, FALSE)
            => /\ ToDiskFailed'
               /\ AtSelect(Flusher)'
               /\ proc' = proc
               /\ shards' = shards
               /\ \A t \in Clients : pc'[t] = pc[t] /\ local'[t] = local[t]]_vars
    /\ [][(ToDiskFailed /\ GetRead("c1"))
            => ret'.res = GetResult(shards[local["c1"].shardIdx], local["c1"].key,
                                    local["c1"].currentTime)]_vars
    /\ (ToDiskFailed /\ AtSelect(Flusher))
          ~> (InToDisk \/ proc.w[Flusher] = "stopped" \/ budget = 0)

\* The flush worker is in a ToDisk begun after its last ToDisk returned an
\* error; the context is not cancelled.
C23_Witness ==
    /\ ToDiskFailed
    /\ InToDisk
    /\ proc.w[Flusher] = "running"
    /\ ~proc.cancelled

\* ------------------------------------------------------------------ C24
\* C24: the store has NumShards shards, recorded lengths and locks in every
\* state; a step of a Put, Get, Delete or Cleanup changes no file and no
\* recorded length; a recorded length changes only in ToDisk's comparison
\* after getLength and a file changes only in ToDisk's Flush.
C24_OnlyToDiskWrites ==
    /\ [](/\ DOMAIN shards = ShardIndexes(NumShards)
          /\ DOMAIN shardDimensions = ShardIndexes(NumShards)
          /\ Cardinality(DOMAIN shards) = NumShards)
    /\ [][/\ \A t \in Clients \cup {Cleaner} :
                pc'[t] # pc[t] => files' = files /\ shardDimensions' = shardDimensions
          /\ shardDimensions' # shardDimensions => pc[Flusher] = "ToDisk_compare"
          /\ files' # files => pc[Flusher] = "Flush_write"]_vars

\* A Delete removed a key that the file written by an earlier ToDisk still
\* holds.
C24_Witness ==
    /\ ret.op = "Delete"
    /\ \E i \in DOMAIN files :
          /\ files[i].exists
          /\ ret.key \in DOMAIN files[i].lines[1].obj
          /\ ret.key \notin DOMAIN shards[i]
          /\ shardDimensions[i] = 1

\* ------------------------------------------------------------------ C25
\* The times of the model's clock.
Times == {n * TickMs : n \in 0 .. (MaxTime \div TickMs)}

\* C25: a Put stores exactly the entry (value, converted TTL, time of the
\* store), whatever entry its key had, and changes no other key; right after
\* it a Get of the key finds the new value, also when the old entry was
\* expired; and while the last Put or Delete of a key that took effect is a
\* Put without TTL, the key holds that Put's entry, which no time expires and
\* no Evict removes.
C25_PutReplacesEntry ==
    /\ [][\A t \in Clients :
            PutStore(t)
            => LET i == local[t].shardIdx
                   k == local[t].key
               IN /\ shards'[i][k] = NewShardEntry(local[t].value,
                                                   ActualTtl(local[t].ttl), clock)
                  /\ DOMAIN shards'[i] = DOMAIN shards[i] \cup {k}
                  /\ \A x \in DOMAIN shards[i] \ {k} : shards'[i][x] = shards[i][x]
                  /\ GetResult(shards'[i], k, clock) = Found(local[t].value)]_vars
    /\ [](\A k \in Keys :
            (lastPut[k].op = "Put" /\ lastPut[k].ttl = Nil)
            => LET i == ExpectedShard(k)
               IN /\ k \in DOMAIN shards[i]
                  /\ shards[i][k] = NewShardEntry(lastPut[k].value, -1, lastPut[k].at)
                  /\ \A now \in Times :
                        /\ ~IsExpired(shards[i][k], now)
                        /\ k \in DOMAIN EvictData(shards[i], now))

\* A Get called when its key's entry had expired returned the value of a Put
\* without TTL that overwrote the entry while the Get waited.
C25_Witness ==
    /\ ret.op = "Get"
    /\ lastPut[ret.key].op = "Put"
    /\ lastPut[ret.key].ttl = Nil
    /\ lastPut[ret.key].n >= 2
    /\ ret.res = Found(lastPut[ret.key].value)
    /\ \E e \in ret.seen \ {NoEntry} :
          /\ IsExpired(e, ret.currentTime)
          /\ e.Value # lastPut[ret.key].value

\* ------------------------------------------------------------------ C26
\* The last return is that of a NewKVStoreFromDisk that succeeded.
Reloaded == ret.op = "Start" /\ ret.load /\ ret.err = NoError

\* Shard d holds exactly the entries of the file.
HoldsEntriesOf(d, file) ==
    /\ DOMAIN d = DOMAIN file.lines[1].obj
    /\ \A k \in DOMAIN d :
          d[k] = [Value |-> JsonUnmarshalValue(file.lines[1].obj[k].value),
                  Timestamp |-> file.lines[1].obj[k].timestamp,
                  Ttl |-> file.lines[1].obj[k].ttl]

\* C26: a NewKVStoreFromDisk(n, dir) that succeeds gives a store of n shards
\* in which shard i is empty when shard-i does not exist and else holds
\* exactly the entries of shard-i, with shardDimensions[i] the number of its
\* entries; every step of a ToDisk called while that load is the last return
\* leaves the files as they are and goes on to no Flush.
C26_ReloadedStore ==
    /\ [][\A n \in {NumShards, OtherNumShards} :
            (RestartWith(TRUE, n) /\ ret'.err = NoError)
            => /\ DOMAIN shards' = ShardIndexes(n)
               /\ DOMAIN shardDimensions' = ShardIndexes(n)
               /\ \A i \in ShardIndexes(n) :
                     /\ ~files[i].exists => shards'[i] = NewShardData
                     /\ files[i].exists => HoldsEntriesOf(shards'[i], files[i])
                     /\ shardDimensions'[i] = Cardinality(DOMAIN shards'[i])]_vars
    /\ [][(Reloaded /\ InToDisk)
            => /\ files' = files
               /\ shardDimensions' = shardDimensions
               /\ pc'[Flusher] \in {"getLength_rlock", "getLength_read",
                               "ToDisk_compare", "idle"}
               /\ pc'[Flusher] = "idle"
                    => ret' = [t |-> Flusher, op |-> "ToDisk", err |-> NoError]]_vars

\* After a load into three shards of the files of a store of two shards, a
\* ToDisk has passed shard 0, which holds the entries of its file, without
\* writing; shard 2 has no file and is empty.
C26_Witness ==
    /\ Reloaded
    /\ DOMAIN shards = ShardIndexes(OtherNumShards)
    /\ pc[Flusher] = "getLength_rlock"
    /\ local[Flusher].i = 1
    /\ files[0].exists
    /\ HoldsEntriesOf(shards[0], files[0])
    /\ shardDimensions[0] = Cardinality(DOMAIN shards[0])
    /\ ~files[2].exists
    /\ shards[2] = NewShardData

\* ------------------------------------------------------------------ C27
\* Thread t is at a write of the map of shard i.
AtWriteOf(t, i) ==
    \/ pc[t] \in {"Put_store", "Delete_remove"} /\ local[t].shardIdx = i
    \/ pc[t] = "Evict_sweep" /\ local[t].i = i

\* The file holds one JSON line with exactly the keys of map d, each with the
\* value, timestamp and TTL of its entry, and the digest of that line.
HoldsSnapshotOf(file, d) ==
    /\ IsIntact(file)
    /\ DOMAIN file.lines[1].obj = DOMAIN d
    /\ \A k \in DOMAIN d :
          file.lines[1].obj[k] = [value |-> JsonMarshalValue(d[k].Value),
                                  timestamp |-> d[k].Timestamp,
                                  ttl |-> d[k].Ttl]

\* C27: from the moment Flush has the reader lock until it has written the
\* file, no thread is at a write of the shard's map and the map does not
\* change; the file written holds exactly the entries of the map, which are
\* those the shard had at every instant of that time.
C27_FlushAtomic ==
    /\ [](pc[Flusher] = "Flush_write"
            => /\ Flusher \in mu[FlusherShard].r
               /\ mu[FlusherShard].w = {}
               /\ \A t \in Threads : ~AtWriteOf(t, FlusherShard))
    /\ [][pc[Flusher] = "Flush_write"
            => /\ shards'[FlusherShard] = shards[FlusherShard]
               /\ (pc'[Flusher] # "Flush_write"
                   /\ DOMAIN shards[FlusherShard] # {})
                    => /\ files'[FlusherShard].exists
                       /\ HoldsSnapshotOf(files'[FlusherShard],
                                          shards[FlusherShard])]_vars

\* Flush holds the reader lock of a shard together with a Get of a key of
\* that shard.
C27_Witness ==
    /\ pc[Flusher] = "Flush_write"
    /\ DOMAIN shards[FlusherShard] # {}
    /\ pc["c2"] = "Get_read"
    /\ local["c2"].shardIdx = FlusherShard
    /\ mu[FlusherShard].r = {Flusher, "c2"}

\* ------------------------------------------------------------------ C28
\* What Get(key) returns at time now from the store that
\* NewKVStoreFromDisk(NumShards, dir) builds, or the load's error.
GetAfterReload(dir, key, now) ==
    LET kv == NewKVStoreFromDisk(NumShards, dir)
    IN IF kv.err # NoError THEN [val |-> NilVal, err |-> kv.err]
       ELSE GetResult(kv.Shards[findShard(kv.Shards, key)], key, now)

\* C28 (as the code has it): when Flush writes the file of a shard that holds
\* at least one entry, a store loaded from the directory then answers
\* KeyNotFound for every key of that shard which the shard does not hold.  A removal reaches the disk only
\* through such a write: ToDisk writes nothing for a shard that is empty or
\* whose length is the recorded one.
C28_RemovalWrittenByFlush ==
    [][(FlushWrite(Flusher, TRUE) /\ DOMAIN shards[FlusherShard] # {})
         => \A k \in Keys :
               (ExpectedShard(k) = FlusherShard /\ k \notin DOMAIN shards[FlusherShard])
               => GetAfterReload(files', k, clock).err = NewKeyNotFoundError(k)]_vars

\* C28 as stated: when the last return is a ToDisk that returned nil and the
\* last Put or Delete of k that took effect is a Delete, a store loaded from
\* the directory answers Get(k) with KeyNotFound.
C28_AsStated ==
    \A k \in Keys :
        (ret.op = "ToDisk" /\ ret.err = NoError /\ lastPut[k].op = "Delete")
        => GetAfterReload(files, k, clock).err = NewKeyNotFoundError(k)

\* Flush is about to write the file of a shard from which a key was deleted
\* that the shard's file holds.
C28_Witness ==
    /\ pc[Flusher] = "Flush_write"
    /\ DOMAIN shards[FlusherShard] # {}
    /\ files[FlusherShard].exists
    /\ \E k \in DOMAIN files[FlusherShard].lines[1].obj :
          /\ lastPut[k].op = "Delete"
          /\ k \notin DOMAIN shards[FlusherShard]

\* ------------------------------------------------------------------ C29
\* Key k holds an entry with a TTL that is expired at the present time.
HoldsExpired(k) ==
    /\ k \in DOMAIN shards[ExpectedShard(k)]
    /\ IsExpired(shards[ExpectedShard(k)][k], clock)

\* A step of the cleanup worker: its ticker, its select, Cleanup.
CleanupWorkerStep ==
    \/ TickerSend(Cleaner)
    \/ WorkerTake(Cleaner)
    \/ WorkerDone(Cleaner)
    \/ WorkerCtxDone(Cleaner)
    \/ CleanerSteps

PersistContents(i) ==
    {PutData(NewShardData, k, NewShardEntry(v, ActualTtl(Nil), 0)) :
        k \in {x \in ConcKeys : ExpectedShard(x) = i},
        v \in IF i = ExpectedShard("hello") THEN Values ELSE {IntVal(1)}}

\* The file of shard i holds exactly the entries of the shard.
Persisted(i) == files[i].exists /\ HoldsSnapshotOf(files[i], shards[i])

\* Shard i has no file although a length above 0 is recorded for it: a ToDisk
\* recorded the length it had read and its Flush then found the shard empty.
EmptiedBeforeFlush(i) == i \in foundEmpty /\ ~files[i].exists

\* The ToDisk in flight has found the length of shard i changed and has not
\* yet returned from the Flush of it.
FlushAhead(i) ==
    /\ pc[Flusher] \in {"Flush_rlock", "Flush_write"}
    /\ local[Flusher].i = i

\* C30 (as the code has it): while the flush worker runs and writes succeed,
\* a shard that holds entries d, in a number other than the recorded one, is
\* eventually changed, or its file eventually holds exactly d, unless the
\* worker returns first; and at any time, before and after the worker's
\* ticks, every shard with an entry has a snapshot file, unless its number
\* of entries is not the recorded one (so that the first part applies to
\* it), or the ToDisk in flight has recorded its length and is about to
\* flush it, or the shard was emptied between a ToDisk's length read and
\* its Flush, which left the recorded length without a file.
C30_EventualPersistence ==
    /\ \A i \in ShardIndexes(NumShards) : \A d \in PersistContents(i) :
          (/\ proc.w[Flusher] = "running"
           /\ shards[i] = d
           /\ Cardinality(DOMAIN d) # shardDimensions[i])
             ~> (Persisted(i) \/ shards[i] # d \/ proc.w[Flusher] = "stopped")
    /\ [](\A i \in DOMAIN shards :
             (DOMAIN shards[i] # {} /\ ~files[i].exists)
             => \/ Cardinality(DOMAIN shards[i]) # shardDimensions[i]
                \/ FlushAhead(i)
                \/ EmptiedBeforeFlush(i))

\* C30 as stated, in its weakest reading: from some time on, unless the flush
\* worker has returned, every shard with an entry has a snapshot file.
C30_AsStated ==
    <>[](\/ proc.w[Flusher] = "stopped"
         \/ \A i \in DOMAIN shards : DOMAIN shards[i] # {} => files[i].exists)

\* The flush worker, running, has returned from a ToDisk of its ticker after
\* the handler's last call, and the file of a shard whose length the ToDisk
\* found changed holds exactly the shard's entries.
C30_Witness ==
    /\ ret.op = "ToDisk"
    /\ ret.err = NoError
    /\ proc.w[Flusher] = "running"
    /\ budget = 0
    /\ phase = "other"
    /\ \E i \in DOMAIN shards :
          /\ DOMAIN shards[i] # {}
          /\ Persisted(i)

====
